---- MODULE Spec2Model ----
(***************************************************************************)
(* The incremental enrichment pipeline of the on-chain address analyzer:   *)
(* run_new_analysis (core_logic.py) with the collaborators it drives       *)
(* (data_processor.py, db_manager.py, okx_api_client.py, arkham_client.py, *)
(* ai_client.py).                                                          *)
(*                                                                         *)
(* Python values are modelled as follows.  A dict with a fixed key set is  *)
(* a record; a dict used as a map (cached_data, processed_data_map,        *)
(* arkham_data) keeps Python's insertion order where the code iterates it. *)
(* None / SQL NULL is the string Null; a missing dict key is the string    *)
(* Unset.  Strings that the code only copies are opaque string tokens;     *)
(* strings the code converts (lower(), isdigit(), float(), strftime) are   *)
(* converted by the tables below.                                          *)
(***************************************************************************)
EXTENDS Integers, Sequences, FiniteSets, TLC

(* ------------------------------ bounds -------------------------------- *)

\* Largest number of transaction stubs in the summary of one run.
MaxTx == 3
\* Largest number of data chunks and of stubs in a summary the Identifier
\* Extractor is run on by itself.
MaxBatches == 2
MaxStubs == 3
\* Largest number of internal transfers, and of token transfers, in a detail
\* record the Detail Cleaner is run on by itself.
MaxTransfers == 2
\* Largest number of non-nominal collaborator outcomes injected in one run
\* (provider errors, cache write errors, odd analysis replies, paired records).
MaxFaults == 1
\* Largest number of stubs in the summary of a run that is repeated.
MaxRerunTx == 2
\* Number of transactions the pool is given when it is studied by itself:
\* one more than it has workers.
MaxPoolTx == 11
\* Largest number of transactions dispatched in the runs whose progress is
\* studied.
MaxLiveTx == 3
\* Largest number of analyses of the address, and of lines typed in the chat.
MaxAnalyses == 2
MaxInputs == 2

\* ThreadPoolExecutor(max_workers=10)
MaxWorkers == 10

(* --------------------------- value universe --------------------------- *)

Null == "<null>"
Unset == "<unset>"

Hashes == {"0xA", "0xB", "0xC"}

\* str.isdigit() on the txTime strings of the model.
IsDigit(s) == s \in {"1700000000000", "1700000001000"}

\* datetime.fromtimestamp(int(ms)/1000).strftime('%Y-%m-%d %H:%M:%S'), UTC.
StrfTime(ms) ==
  CASE ms = "1700000000000" -> "2023-11-14 22:13:20"
    [] ms = "1700000001000" -> "2023-11-14 22:13:21"

\* Python truthiness of an optional string.
Truthy(s) == s \notin {"", Null, Unset}

\* str.lower() on the addresses of the model.
Lower(a) ==
  CASE a \in {"0xAA", "0xaa"} -> "0xaa"
    [] a \in {"0xBB", "0xbb"} -> "0xbb"
    [] a \in {"0xCC", "0xcc"} -> "0xcc"
    [] OTHER -> a

\* The address the run is about, as the user typed it.
QueriedAddress == "0xAA"

Range(s) == {s[i] : i \in 1..Len(s)}

SeqsUpTo(S, n) == UNION {[1..k -> S] : k \in 0..n}

RECURSIVE Flatten(_)
Flatten(ss) == IF ss = <<>> THEN <<>> ELSE Head(ss) \o Flatten(Tail(ss))

RECURSIVE SumLen(_)
SumLen(ss) == IF ss = <<>> THEN 0 ELSE Len(Head(ss)) + SumLen(Tail(ss))

\* The k-th permutation source: all orderings of a finite set.
Perms(S) == {p \in [1..Cardinality(S) -> S] : Range(p) = S}

(* ------------------------- Identifier Extractor ----------------------- *)

\* One raw transaction stub of a summary chunk.
Stub(h, c, t) == [chainIndex |-> c, txHash |-> h, txTime |-> t]

\* data_processor.extract_tx_info_from_summary, the body of the inner loop.
TxInfoOf(tx) ==
  [chainIndex |-> tx.chainIndex,
   txHash     |-> tx.txHash,
   timestamp  |-> IF Truthy(tx.txTime) /\ IsDigit(tx.txTime)
                  THEN StrfTime(tx.txTime) ELSE ""]

\* An extractor that would leave out the stubs whose time cannot be shown.
ExtractWellTimed(raw_data) ==
  LET all == SelectSeq(Flatten(raw_data),
                       LAMBDA tx : Truthy(tx.txTime) /\ IsDigit(tx.txTime))
  IN  [i \in 1..Len(all) |-> TxInfoOf(all[i])]

\* data_processor.extract_tx_info_from_summary: every stub of every chunk,
\* chunk by chunk, in order.
extract_tx_info_from_summary(raw_data) ==
  LET all == Flatten(raw_data)
  IN  [i \in 1..Len(all) |-> TxInfoOf(all[i])]

\* No dedup loop at all.
DedupNothing(list) == list

\* A dedup loop that would keep the last stub of each hash instead of the
\* first.
DedupKeepLast(list) ==
  LET keep == {i \in 1..Len(list) :
                 \A j \in (i+1)..Len(list) : list[j].txHash # list[i].txHash}
      RECURSIVE Pick(_)
      Pick(i) == IF i > Len(list) THEN <<>>
                 ELSE IF i \in keep THEN <<list[i]>> \o Pick(i + 1)
                 ELSE Pick(i + 1)
  IN  Pick(1)

\* core_logic.run_new_analysis, the dedup loop: a set of seen hashes, and a
\* stub is appended when its hash is not yet in the set.
DedupByHash(list) ==
  LET RECURSIVE Loop(_, _, _)
      Loop(i, seen, out) ==
        IF i > Len(list) THEN out
        ELSE IF list[i].txHash \notin seen
             THEN Loop(i + 1, seen \cup {list[i].txHash}, Append(out, list[i]))
             ELSE Loop(i + 1, seen, out)
  IN  Loop(1, {}, <<>>)

HashesOf(list) == [i \in 1..Len(list) |-> list[i].txHash]

(* ------------------------ upstream transaction data ------------------- *)

\* One endpoint record of fromDetails / toDetails.
Party(a, c) == [address |-> a, isContract |-> c]

\* One entry of internalTransactionDetails.
Itx(f, t, amt, fc, tc) ==
  [from |-> f, to |-> t, amount |-> amt, isFromContract |-> fc, isToContract |-> tc]

\* One entry of tokenTransferDetails.
Ttx(f, t, sym) == [from |-> f, to |-> t, symbol |-> sym]

\* What the chain holds for each hash: the record the detail provider returns
\* for it.  0xA is sent by the queried address, 0xB is received by it, 0xC is a
\* contract creation by a third party.
RawDetailOf(h) ==
  CASE h = "0xA" ->
         [txhash |-> "0xA", chainIndex |-> "1",
          fromDetails |-> <<Party("0xaa", FALSE)>>,
          toDetails   |-> <<Party("0xBB", TRUE)>>,
          internalTransactionDetails |->
            << Itx("0xBB", "0xaa", "1",   TRUE, FALSE),
               Itx("0xBB", "0xCC", "1",   TRUE, TRUE),
               Itx("0xbb", "0xAA", "0",   TRUE, FALSE) >>,
          tokenTransferDetails |->
            << Ttx("0xaa", "0xCC", "USDT"), Ttx("0xCC", "0xAA", "WETH") >>]
    [] h = "0xB" ->
         [txhash |-> "0xB", chainIndex |-> "1",
          fromDetails |-> <<Party("0xCC", TRUE)>>,
          toDetails   |-> <<Party("0xAA", FALSE)>>,
          internalTransactionDetails |->
            << Itx("0xCC", "0xbb", "0.5", TRUE, FALSE),
               Itx("0xCC", "0xBB", "n/a", TRUE, FALSE) >>,
          tokenTransferDetails |->
            << Ttx("0xCC", "0xaa", "USDT"), Ttx("0xCC", "0xBB", "USDT") >>]
    [] h = "0xC" ->
         [txhash |-> "0xC", chainIndex |-> "1",
          fromDetails |-> <<Party("0xbb", FALSE)>>,
          toDetails   |-> <<Party("", FALSE)>>,
          internalTransactionDetails |-> << >>,
          tokenTransferDetails |-> << Ttx("0xbb", "0xCC", "DAI") >>]

\* A record the provider returns with an empty fromDetails list.
MalformedDetailOf(h) == [RawDetailOf(h) EXCEPT !.fromDetails = << >>]

\* float(tx.get("amount", "0")) with ValueError turned into 0, compared to 0.
AmountIsZero(s) == s \in {"0", "0.0", "n/a", ""}

(* ----------------------------- Detail Cleaner -------------------------- *)

\* A bare-string endpoint and a dict endpoint without label.
BareStr(a) == [kind |-> "str", address |-> a, addressInfo |-> Unset]

\* A filter that would keep every internal transfer with a non-zero amount.
IsNonZeroInternal(tx, user_address) == ~AmountIsZero(tx.amount)

\* data_processor.filter_important_internal_transactions, the three rules
\* applied to one entry.
IsImportantInternal(tx, user_address) ==
  /\ ~AmountIsZero(tx.amount)
  /\ \/ Lower(user_address) \in {Lower(tx.from), Lower(tx.to)}
     \/ ~(tx.isFromContract /\ tx.isToContract)

\* data_processor.filter_important_internal_transactions
filter_important_internal_transactions(internal_txs, user_address) ==
  SelectSeq(internal_txs, LAMBDA tx : IsImportantInternal(tx, user_address))

\* A token filter that would keep every token transfer of every transaction.
KeepAllTokenTransfers(token_transfers, is_user_initiated, user_address) ==
  token_transfers

\* data_processor.process_and_clean_details, the token transfers kept: all of
\* them for a user-initiated transaction, else those sent to the user.
FilterTokenTransfers(token_transfers, is_user_initiated, user_address) ==
  IF is_user_initiated THEN token_transfers
  ELSE SelectSeq(token_transfers, LAMBDA t : Lower(t.to) = Lower(user_address))

\* detail.get("fromDetails", [{}])[0] raises IndexError on an empty list.
CleanRaises(detail) == Len(detail.fromDetails) = 0

\* data_processor.process_and_clean_details, the body of the loop for one
\* record (the scalar fields the cleaner only copies or reformats are left out).
CleanOne(detail, user_address) ==
  LET from_detail == IF Len(detail.fromDetails) > 0
                     THEN detail.fromDetails[1] ELSE Party("", FALSE)
      to_detail   == IF Len(detail.toDetails) > 0
                     THEN detail.toDetails[1] ELSE Party("", FALSE)
      is_user_initiated == Lower(from_detail.address) = Lower(user_address)
      kept_itx == filter_important_internal_transactions(
                     detail.internalTransactionDetails, user_address)
      kept_ttx == FilterTokenTransfers(detail.tokenTransferDetails,
                                       is_user_initiated, user_address)
  IN  [txhash |-> detail.txhash,
       chainIndex |-> detail.chainIndex,
       from |-> [kind |-> "dict", address |-> from_detail.address,
                 isContract |-> from_detail.isContract, addressInfo |-> Unset],
       to   |-> [kind |-> "dict", address |-> to_detail.address,
                 isContract |-> to_detail.isContract, addressInfo |-> Unset],
       isUserInitiated |-> is_user_initiated,
       internalTransactions |->
         [i \in 1..Len(kept_itx) |->
            [from |-> BareStr(kept_itx[i].from), to |-> BareStr(kept_itx[i].to),
             amount |-> kept_itx[i].amount,
             isFromContract |-> kept_itx[i].isFromContract,
             isToContract |-> kept_itx[i].isToContract]],
       tokenTransfers |->
         [i \in 1..Len(kept_ttx) |->
            [from |-> BareStr(kept_ttx[i].from), to |-> BareStr(kept_ttx[i].to),
             symbol |-> kept_ttx[i].symbol]],
       ai_analysis |-> Unset]

\* data_processor.process_and_clean_details
process_and_clean_details(raw_details_list, user_address) ==
  [i \in 1..Len(raw_details_list) |-> CleanOne(raw_details_list[i], user_address)]

\* A map that would keep every record of processed_data, as a list does.
BuildMapOfAll(processed) == [i \in 1..Len(processed) |-> i]

\* processed_data_map = {tx['txhash']: tx for tx in processed_data}: the keys in
\* first-insertion order, each bound to the last record with that hash.  The
\* map's values are the records of processed_data themselves, so the map is the
\* sequence of their indices.
BuildMap(processed) ==
  LET firsts == {i \in 1..Len(processed) :
                   \A j \in 1..(i-1) : processed[j].txhash # processed[i].txhash}
      LastOf(h) == CHOOSE i \in 1..Len(processed) :
                     /\ processed[i].txhash = h
                     /\ \A j \in (i+1)..Len(processed) : processed[j].txhash # h
      RECURSIVE Pick(_)
      Pick(i) == IF i > Len(processed) THEN <<>>
                 ELSE IF i \in firsts
                      THEN <<LastOf(processed[i].txhash)>> \o Pick(i + 1)
                      ELSE Pick(i + 1)
  IN  Pick(1)

(* ---------------------- Address Collector and labels ------------------ *)

\* get_address_from_field
get_address_from_field(field_value) == field_value.address

\* The endpoints of one cleaned transaction, top level first.
EndpointsOf(tx) ==
  <<tx.from, tx.to>>
  \o Flatten([i \in 1..Len(tx.internalTransactions) |->
                <<tx.internalTransactions[i].from, tx.internalTransactions[i].to>>])
  \o Flatten([i \in 1..Len(tx.tokenTransfers) |->
                <<tx.tokenTransfers[i].from, tx.tokenTransfers[i].to>>])

\* core_logic.run_new_analysis, the address collection loop with the two
\* discards.
CollectAddresses(processed) ==
  {get_address_from_field(e) :
     e \in UNION {Range(EndpointsOf(processed[i])) : i \in 1..Len(processed)}}
  \ {Null, ""}

\* The labels Arkham knows, keyed by lower-cased address.
ArkhamKnown == {"0xbb", "0xcc"}
ArkhamLabel(a) == IF a = "0xbb" THEN "ark:Exchange" ELSE "ark:Router"
CachedLabel(a) == IF a = "0xbb" THEN "db:Exchange" ELSE "db:Router"

\* A label read that would look the addresses up as they are written.
GetLabelsExactCase(db, addresses) ==
  [a \in (DOMAIN db) \cap addresses |-> db[a]]

\* db_manager.get_labels_by_addresses
get_labels_by_addresses(db, addresses) ==
  LET addresses_lower == {Lower(a) : a \in addresses}
  IN  [a \in (DOMAIN db) \cap addresses_lower |-> db[a]]

\* arkham_client.get_arkham_intelligence when the actor run succeeds.
get_arkham_intelligence(wallet_addresses) ==
  [a \in {Lower(w) : w \in wallet_addresses} \cap ArkhamKnown |-> ArkhamLabel(a)]

\* dict.update
Update(old, new) ==
  [k \in (DOMAIN old) \cup (DOMAIN new) |-> IF k \in DOMAIN new THEN new[k] ELSE old[k]]

Put(f, k, v) == [x \in (DOMAIN f) \cup {k} |-> IF x = k THEN v ELSE f[x]]

EmptyMap == [x \in {} |-> Null]

\* An enrichment that would set the label of every labelled address, over
\* any label the endpoint already carries.
EnrichOverwriting(field_value, labels) ==
  IF Truthy(field_value.address) /\ Lower(field_value.address) \in DOMAIN labels
  THEN [kind |-> "dict", address |-> field_value.address,
        addressInfo |-> labels[Lower(field_value.address)]]
  ELSE field_value

\* An enrichment that would label dict endpoints only and leave the bare
\* strings of the nested transfers alone.
EnrichTopOnly(field_value, labels) ==
  IF field_value.kind = "str" THEN field_value
  ELSE IF Truthy(field_value.address) /\ Lower(field_value.address) \in DOMAIN labels
          /\ field_value.addressInfo = Unset
       THEN [field_value EXCEPT !.addressInfo = labels[Lower(field_value.address)]]
       ELSE field_value

\* core_logic.enrich_address_field: the new value of target_dict[address_key].
enrich_address_field(field_value, labels) ==
  LET addr_str == get_address_from_field(field_value)
  IN  IF Truthy(addr_str) /\ Lower(addr_str) \in DOMAIN labels
      THEN LET as_dict == IF field_value.kind = "str"
                          THEN [kind |-> "dict", address |-> field_value.address,
                                addressInfo |-> Unset]
                          ELSE field_value
           IN  IF as_dict.addressInfo = Unset
               THEN [as_dict EXCEPT !.addressInfo = labels[Lower(addr_str)]]
               ELSE as_dict
      ELSE field_value

\* core_logic.run_new_analysis, step 5.5 for one transaction.
EnrichTx(tx, labels) ==
  [tx EXCEPT
     !.from = enrich_address_field(tx.from, labels),
     !.to   = enrich_address_field(tx.to, labels),
     !.internalTransactions =
        [i \in 1..Len(tx.internalTransactions) |->
           [tx.internalTransactions[i] EXCEPT
              !.from = enrich_address_field(tx.internalTransactions[i].from, labels),
              !.to   = enrich_address_field(tx.internalTransactions[i].to, labels)]],
     !.tokenTransfers =
        [i \in 1..Len(tx.tokenTransfers) |->
           [tx.tokenTransfers[i] EXCEPT
              !.from = enrich_address_field(tx.tokenTransfers[i].from, labels),
              !.to   = enrich_address_field(tx.tokenTransfers[i].to, labels)]]]


(* ------------------------------ Cache Store ---------------------------- *)

\* The analysis text stored by an earlier run, and the replies of the
\* single-transaction analysis collaborator.
CachedText(h) ==
  CASE h = "0xA" -> "earlier analysis of 0xA"
    [] h = "0xB" -> "earlier analysis of 0xB"
    [] h = "0xC" -> "earlier analysis of 0xC"

AiText(h) == "analysis of " \o h

\* One row of the transactions table.
Row(d, a) == [detail |-> d, analysis |-> a]

\* db_manager.add_transaction_detail: INSERT OR REPLACE names four columns, so
\* the replaced row's ai_analysis column is NULL again.
add_transaction_detail(db, txHash, detail_data) ==
  Put(db, txHash, Row(detail_data, Null))

\* A batch read that would return every row of the table.
RowsOfTable(db, txHashes) == DOMAIN db

\* The keys of the rows the batch read selects (db_manager 63-69): none for
\* an empty list, else those of WHERE txHash IN (...).
RowsMatching(db, txHashes) ==
  IF txHashes = {} THEN {} ELSE {h \in DOMAIN db : h \in txHashes}

\* db_manager.get_transaction_details_by_hashes: the rows whose key is asked
\* for; SQL fixes no order for them, so the order is a parameter.
get_transaction_details_by_hashes(db, order) ==
  [i \in 1..Len(order) |->
     [txHash |-> order[i], detail |-> db[order[i]].detail,
      analysis |-> db[order[i]].analysis]]

\* A table that would not keep the analysis column.
UpdateNothing(db, txHash, analysis) == db

\* db_manager.update_ai_analysis: UPDATE ... WHERE txHash = ?, which changes
\* nothing when no row has that key.
update_ai_analysis(db, txHash, analysis) ==
  IF txHash \in DOMAIN db
  THEN [db EXCEPT ![txHash] = Row(db[txHash].detail, analysis)]
  ELSE db

\* {k.lower(): v for k, v in m.items()}
LowerKeys(m) ==
  [a \in {Lower(k) : k \in DOMAIN m} |-> m[CHOOSE k \in DOMAIN m : Lower(k) = a]]

\* db_manager.add_labels: keys lower-cased, INSERT OR REPLACE.
add_labels(db, label_data) == Update(db, LowerKeys(label_data))

\* The keys of cached_data and the row of one key.
CachedKeys(cached) == {cached[i].txHash : i \in 1..Len(cached)}
CachedRow(cached, h) == cached[CHOOSE i \in 1..Len(cached) : cached[i].txHash = h]

(* --------------------------- the chat database -------------------------- *)

\* The chat database of the address, data/db/chat/<address>.db
\* (db_manager 120-121): the file is "absent", "empty" (a database with no
\* table) or "ready" (the tables context and history exist); context maps
\* the keys stored to their value; history is the rows of the history table
\* by ascending id.  era is not a column: it records how many analyses of
\* the address had completed when the row was written.
ChatDb(file, context, history) ==
  [file |-> file, context |-> context, history |-> history]

NoChatDb == ChatDb("absent", EmptyMap, << >>)

\* sqlite3.connect(db_path): opening the database creates the file.
ChatConnect(db) == IF db.file = "absent" THEN [db EXCEPT !.file = "empty"] ELSE db

\* A statement on context or history finds its table.
ChatTablesExist(db) == db.file = "ready"

\* db_manager.setup_chat_database: CREATE TABLE IF NOT EXISTS, twice.
setup_chat_database(db) == [db EXCEPT !.file = "ready"]

\* A reset that would leave the rows in place.
ResetKeepsRows(db) == db

\* db_manager.reset_chat_history: nothing without the file; DELETE FROM
\* history otherwise, which raises on a database with no table.
ResetRaises(db) == db.file = "empty"
reset_chat_history(db) ==
  IF db.file = "ready" THEN [db EXCEPT !.history = << >>] ELSE db

\* db_manager.save_chat_context: INSERT OR REPLACE of the two keys; the
\* first statement raises when the table context is missing, after the
\* connection created the file.
SaveContextRaises(db) == ~ChatTablesExist(db)
save_chat_context(db, report, analyses_summary) ==
  IF ChatTablesExist(db)
  THEN [db EXCEPT !.context =
          Put(Put(db.context, "report", report), "analyses_summary", analyses_summary)]
  ELSE ChatConnect(db)

\* db_manager.save_chat_message: INSERT INTO history; every exception is
\* caught and printed, so a failed write (stored = FALSE, or a missing
\* table) leaves the rows as they were.
save_chat_message(db, role, content, era, stored) ==
  IF ChatTablesExist(db) /\ stored
  THEN [db EXCEPT !.history = Append(db.history,
          [role |-> role, content |-> content, era |-> era])]
  ELSE ChatConnect(db)

\* db_manager.load_chat_session: raises when a table is missing; otherwise
\* the report, the analyses summary ("" for a key with no row) and the rows of
\* history as {"role", "content"} by ascending id.
LoadRaises(db) == ~ChatTablesExist(db)
ContextValue(db, key) == IF key \in DOMAIN db.context THEN db.context[key] ELSE ""
load_chat_session(db) ==
  [report |-> ContextValue(db, "report"),
   analyses_summary |-> ContextValue(db, "analyses_summary"),
   history |-> [i \in 1..Len(db.history) |->
                  [role |-> db.history[i].role, content |-> db.history[i].content]]]

\* sep.join(texts)
RECURSIVE Join(_, _)
Join(texts, sep) ==
  IF texts = << >> THEN ""
  ELSE IF Len(texts) = 1 THEN texts[1]
  ELSE texts[1] \o sep \o Join(Tail(texts), sep)

\* analyses_summary_str (core_logic 401, app.py 432).
AnalysesSummary(texts) == Join(texts, "\n\n---\n\n")

\* ai_conclusion.generate_conclusion: the fixed text of line 156 for no
\* analysis; otherwise the report of the collaborator, a text determined by
\* the analyses it was given.
generate_conclusion(texts) ==
  IF texts = << >> THEN "not enough data for a report"
  ELSE "report on [" \o Join(texts, "; ") \o "]"

\* The analysis texts of all_ai_analyses.
TextsOf(all) == [k \in 1..Len(all) |-> all[k].text]

(* ------------------------------- the run ------------------------------- *)

VARIABLES
  pc,             \* the stage run_new_analysis is at
  summarySource,  \* what the summary provider holds for the address
  rawSummaryData, \* raw_summary_data
  txInfoList,     \* tx_info_list after the dedup loop
  dbTx,           \* the transactions table, keyed by txHash
  dbLabels,       \* the labels table, keyed by lower-cased address
  cachedData,     \* cached_data, in row order
  toFetch,        \* tx_info_to_fetch_online
  fetchIdx,       \* position of the fetch loop in toFetch
  allDetailsRaw,  \* all_details_raw
  responses,      \* what the detail provider answered, call by call
  processedData,  \* processed_data
  processedMap,   \* processed_data_map, as indices into processed_data
  arkhamData,     \* arkham_data
  txsToAnalyze,   \* txs_to_analyze, as indices into processed_data
  tasks,          \* the futures of the worker pool
  allAiAnalyses,  \* all_ai_analyses, with the hash each text belongs to
  events,         \* the calls the main thread made up to the dispatch, in order,
                  \* the report call, and the calls and lines of the chat
  nfaults,        \* non-nominal outcomes injected so far
  abortCause,     \* why the outer except ended the run
  jsonFiles,      \* the files of data/json, one per run that reached step 7
  chatDb,         \* the chat database file of the address
  chatHistory     \* chat_history (st.session_state.messages in app.py)

vars == <<pc, summarySource, rawSummaryData, txInfoList, dbTx, dbLabels,
          cachedData, toFetch, fetchIdx, allDetailsRaw, responses,
          processedData, processedMap, arkhamData, txsToAnalyze, tasks,
          allAiAnalyses, events, nfaults, abortCause, jsonFiles, chatDb,
          chatHistory>>

\* A run that would go back to the label stage after the enrichment.
StageAfterLooping(stage) ==
  CASE stage = "start"     -> "cache"
    [] stage = "cache"     -> "fetch"
    [] stage = "fetch"     -> "labels"
    [] stage = "labels"    -> "enrich"
    [] stage = "enrich"    -> "labels"
    [] stage = "partition" -> "collect"
    [] stage = "collect"   -> "done"

\* The stage run_new_analysis goes to when a stage ends without return or
\* exception: the steps of the function body, top to bottom.
StageAfter(stage) ==
  CASE stage = "start"     -> "cache"
    [] stage = "cache"     -> "fetch"
    [] stage = "fetch"     -> "labels"
    [] stage = "labels"    -> "enrich"
    [] stage = "enrich"    -> "partition"
    [] stage = "partition" -> "collect"
    [] stage = "collect"   -> "done"

\* The chunks of a summary: each chunk is a dict with a "transactions" list.
ChunkLists(raw_data) == [i \in 1..Len(raw_data) |-> raw_data[i].transactions]

Ev(op, key, ok) == [op |-> op, key |-> key, ok |-> ok]

\* The events of the given kind in a sequence of events.
EventsOf(evs, op) == SelectSeq(evs, LAMBDA e : e.op = op)

\* The summaries of the pipeline runs: one chunk of up to MaxTx stubs, or no
\* chunk at all.
PipelineSummaries ==
  {<< >>} \cup
  {<<[transactions |-> b]>> :
     b \in SeqsUpTo({Stub(h, "1", "1700000000000") : h \in Hashes}, MaxTx)}

\* The hashes a summary lists.
SummaryHashes(raw_data) ==
  {Flatten(ChunkLists(raw_data))[i].txHash : i \in 1..SumLen(ChunkLists(raw_data))}

\* The detail caches an earlier run over hashes of H can have left: any set
\* of rows, each with or without an analysis.
InitialCaches(H) ==
  UNION {{[h \in S |-> Row(RawDetailOf(h), IF h \in A THEN CachedText(h) ELSE Null)] :
            A \in SUBSET S} : S \in SUBSET H}

InitialLabelCaches == {EmptyMap, [a \in {"0xbb"} |-> CachedLabel(a)]}

InitRest ==
  /\ pc = "start"
  /\ rawSummaryData = << >>
  /\ txInfoList = << >>
  /\ cachedData = << >>
  /\ toFetch = << >>
  /\ fetchIdx = 1
  /\ allDetailsRaw = << >>
  /\ responses = << >>
  /\ processedData = << >>
  /\ processedMap = << >>
  /\ arkhamData = EmptyMap
  /\ txsToAnalyze = << >>
  /\ tasks = << >>
  /\ allAiAnalyses = << >>
  /\ events = << >>
  /\ nfaults = 0
  /\ abortCause = ""
  /\ jsonFiles = << >>
  /\ chatDb = NoChatDb
  /\ chatHistory = << >>

Init ==
  /\ summarySource \in PipelineSummaries
  /\ dbTx \in InitialCaches(SummaryHashes(summarySource))
  /\ dbLabels \in InitialLabelCaches
  /\ InitRest

\* A step 1 without the two early returns.
NothingIsEmpty(raw_summary_data, extracted) == FALSE

\* The two early returns of step 1 (core_logic 169 and 176).
NothingToAnalyze(raw_summary_data, extracted) ==
  raw_summary_data = << >> \/ extracted = << >>

\* Step 1 (core_logic 166-189): the summary provider answers, or answers
\* nothing (get_transactions_by_address returns [] on every error); the
\* stubs are extracted and deduplicated.
FetchSummary ==
  /\ pc = "start"
  /\ \E answered \in BOOLEAN :
       /\ (~answered) => nfaults < MaxFaults
       /\ nfaults' = IF answered THEN nfaults ELSE nfaults + 1
       /\ rawSummaryData' = IF answered THEN summarySource ELSE << >>
  /\ LET extracted == extract_tx_info_from_summary(ChunkLists(rawSummaryData'))
     IN  IF NothingToAnalyze(rawSummaryData', extracted)
         THEN /\ pc' = "returned"
              /\ txInfoList' = extracted
         ELSE /\ pc' = StageAfter("start")
              /\ txInfoList' = DedupByHash(extracted)
  /\ UNCHANGED <<summarySource, dbTx, dbLabels, cachedData, toFetch, fetchIdx,
                 allDetailsRaw, responses, processedData, processedMap,
                 arkhamData, txsToAnalyze, tasks, allAiAnalyses, events,
                 abortCause,
                 jsonFiles, chatDb, chatHistory>>

\* A resolver that would fetch every hash, cached or not.
NeedsFetchAll(list, cached) == list

\* tx_info_to_fetch_online (core_logic 199)
NeedsFetch(list, cached) ==
  SelectSeq(list, LAMBDA tx : tx.txHash \notin CachedKeys(cached))

\* Step 2 (core_logic 194-204): one batch read of the detail cache.  The raw
\* summary is not read again after step 1 (the run goes on from tx_info_list
\* alone), so from here on the model no longer carries it.
CheckCache ==
  /\ pc = "cache"
  /\ LET hashes_to_check == Range(HashesOf(txInfoList))
     IN  \E order \in Perms(RowsMatching(dbTx, hashes_to_check)) :
           /\ cachedData' = get_transaction_details_by_hashes(dbTx, order)
           /\ toFetch' = NeedsFetch(txInfoList, cachedData')
           /\ allDetailsRaw' = [i \in 1..Len(order) |-> cachedData'[i].detail]
  /\ events' = Append(events, Ev("detailRead", "", TRUE))
  /\ fetchIdx' = 1
  /\ pc' = StageAfter("cache")
  /\ summarySource' = << >>
  /\ rawSummaryData' = << >>
  /\ UNCHANGED <<txInfoList, dbTx, dbLabels,
                 responses, processedData, processedMap, arkhamData,
                 txsToAnalyze, tasks, allAiAnalyses, nfaults, abortCause,
                 jsonFiles, chatDb, chatHistory>>


\* What get_transaction_detail_by_hash can do for one hash: raise (HTTP or
\* business error), return no data, return the record, return the record with a
\* second one (an L2 origin/destination pair), or return a malformed record.
\* cost counts the outcome against MaxFaults.
ProviderOutcomes(h) ==
  {[raised |-> TRUE,  data |-> << >>, cost |-> 1],
   [raised |-> FALSE, data |-> << >>, cost |-> 1],
   [raised |-> FALSE, data |-> <<RawDetailOf(h)>>, cost |-> 0],
   [raised |-> FALSE, data |-> <<MalformedDetailOf(h)>>, cost |-> 1]}
  \cup {[raised |-> FALSE, data |-> <<RawDetailOf(h), RawDetailOf(h2)>>, cost |-> 1] :
          h2 \in Hashes}

\* The first n records of data written with add_transaction_detail, in order.
RECURSIVE WriteDetails(_, _, _)
WriteDetails(db, data, n) ==
  IF n = 0 THEN db
  ELSE add_transaction_detail(WriteDetails(db, data, n - 1), data[n].txhash, data[n])

\* A fetch loop whose try would enclose the loop: the first failure ends it.
FetchStopsOnError(i, n, failed) == IF failed THEN n + 1 ELSE i + 1

\* The fetch loop's next position: the except clause is inside the loop body,
\* so the loop goes on to the next item whether or not the body raised.
NextFetchIdx(i, n, failed) == i + 1

\* all_details_raw after one loop body: extend() runs before the writes, so
\* the records stay when a write raises; nothing is added when the call raised.
ExtendDetails(all, out, failed) == all \o out.data

\* Step 3 (core_logic 210-227): the loop body for one item.  failAt = k > 0
\* is the k-th add_transaction_detail raising; 0 is no write raising.
FetchOne ==
  /\ pc = "fetch"
  /\ fetchIdx <= Len(toFetch)
  /\ LET h == toFetch[fetchIdx].txHash
     IN  \E out \in ProviderOutcomes(h) :
         \E failAt \in 0..Len(out.data) :
           LET cost   == out.cost + (IF failAt > 0 THEN 1 ELSE 0)
               nwrit  == IF failAt > 0 THEN failAt - 1 ELSE Len(out.data)
               failed == out.raised \/ failAt > 0
               writes == [k \in 1..(IF failAt > 0 THEN failAt ELSE Len(out.data)) |->
                            Ev("detailWrite", out.data[k].txhash, k # failAt)]
           IN  /\ nfaults + cost <= MaxFaults
               /\ nfaults' = nfaults + cost
               /\ responses' = Append(responses,
                                      [txHash |-> h, raised |-> out.raised,
                                       data |-> out.data])
               /\ allDetailsRaw' = ExtendDetails(allDetailsRaw, out, failed)
               /\ dbTx' = WriteDetails(dbTx, out.data, nwrit)
               /\ events' = events \o <<Ev("detailCall", h, ~out.raised)>> \o writes
                                   \o (IF failed THEN << >>
                                       ELSE <<Ev("sleep", h, TRUE)>>)
               /\ fetchIdx' = NextFetchIdx(fetchIdx, Len(toFetch), failed)
  /\ UNCHANGED <<pc, summarySource, rawSummaryData, txInfoList, dbLabels,
                 cachedData, toFetch, processedData, processedMap, arkhamData,
                 txsToAnalyze, tasks, allAiAnalyses, abortCause,
                 jsonFiles, chatDb, chatHistory>>

\* Step 4 (core_logic 233-235): the Detail Cleaner and processed_data_map.  An
\* exception of the cleaner reaches the outer except of run_new_analysis.
CleanDetails ==
  /\ pc = "fetch"
  /\ fetchIdx > Len(toFetch)
  /\ IF \E i \in 1..Len(allDetailsRaw) : CleanRaises(allDetailsRaw[i])
     THEN /\ pc' = "aborted"
          /\ abortCause' = "process_and_clean_details"
          /\ UNCHANGED <<processedData, processedMap>>
     ELSE /\ processedData' = process_and_clean_details(allDetailsRaw, QueriedAddress)
          /\ processedMap' = BuildMap(processedData')
          /\ pc' = StageAfter("fetch")
          /\ UNCHANGED abortCause
  /\ UNCHANGED <<summarySource, rawSummaryData, txInfoList, dbTx, dbLabels,
                 cachedData, toFetch, fetchIdx, allDetailsRaw, responses,
                 arkhamData, txsToAnalyze, tasks, allAiAnalyses, events, nfaults,
                 jsonFiles, chatDb, chatHistory>>

\* A resolver that would ask the label provider for every collected address.
FetchAllAddresses(all_addresses, cached_labels) == all_addresses

\* addresses_to_fetch_online (core_logic 278)
AddressesToFetchOnline(all_addresses, cached_labels) ==
  {a \in all_addresses : Lower(a) \notin DOMAIN cached_labels}

\* A label provider that would return what it found although it failed.
LabelReplyDespiteFailure(wallet_addresses, provided) ==
  get_arkham_intelligence(wallet_addresses)

\* What get_arkham_intelligence returns to run_new_analysis: the map it
\* built, or {} from its except clause when the actor run failed.
LabelReply(wallet_addresses, provided) ==
  IF provided THEN get_arkham_intelligence(wallet_addresses) ELSE EmptyMap

\* The call of the label provider, with the addresses it was asked for.
LabelCallEv(asked, ok) ==
  [op |-> "labelCall", key |-> "", ok |-> ok, asked |-> asked]

\* Step 5 (core_logic 243-293): collect the addresses, read the label cache,
\* fetch the missing labels in one call, store them and merge them.
\* get_arkham_intelligence returns {} when the actor call fails; add_labels is
\* called outside any inner try, so its exception reaches the outer except.
ResolveLabels ==
  /\ pc = "labels"
  /\ LET all_addresses == CollectAddresses(processedData)
         cached_labels == get_labels_by_addresses(dbLabels, all_addresses)
         addresses_to_fetch_online ==
           AddressesToFetchOnline(all_addresses, cached_labels)
         readEv == IF all_addresses = {} THEN << >>
                   ELSE <<Ev("labelRead", "", TRUE)>>
     IN  IF addresses_to_fetch_online = {}
         THEN /\ arkhamData' = cached_labels
              /\ events' = events \o readEv
              /\ pc' = StageAfter("labels")
              /\ UNCHANGED <<dbLabels, nfaults, abortCause>>
         ELSE \E provided \in BOOLEAN, stored \in BOOLEAN :
                LET newly_fetched_labels ==
                      LabelReply(addresses_to_fetch_online, provided)
                    writes == newly_fetched_labels # EmptyMap
                    cost == (IF provided THEN 0 ELSE 1)
                            + (IF writes /\ ~stored THEN 1 ELSE 0)
                IN  /\ (~writes) => stored
                    /\ nfaults + cost <= MaxFaults
                    /\ nfaults' = nfaults + cost
                    /\ events' = events \o readEv
                                   \o <<LabelCallEv(addresses_to_fetch_online, provided)>>
                                   \o (IF writes THEN <<Ev("labelWrite", "", stored)>>
                                       ELSE << >>)
                    /\ IF stored
                       THEN /\ dbLabels' = IF writes
                                           THEN add_labels(dbLabels, newly_fetched_labels)
                                           ELSE dbLabels
                            /\ arkhamData' = Update(cached_labels,
                                                     LowerKeys(newly_fetched_labels))
                            /\ pc' = StageAfter("labels")
                            /\ UNCHANGED abortCause
                       ELSE /\ pc' = "aborted"
                            /\ abortCause' = "add_labels"
                            /\ UNCHANGED <<dbLabels, arkhamData>>
  /\ UNCHANGED <<summarySource, rawSummaryData, txInfoList, dbTx, cachedData,
                 toFetch, fetchIdx, allDetailsRaw, responses, processedData,
                 processedMap, txsToAnalyze, tasks, allAiAnalyses,
                 jsonFiles, chatDb, chatHistory>>

\* Step 5.5 (core_logic 298-330): every record of processed_data is enriched.
Enrich ==
  /\ pc = "enrich"
  /\ processedData' = [i \in 1..Len(processedData) |->
                         EnrichTx(processedData[i], arkhamData)]
  /\ pc' = StageAfter("enrich")
  /\ UNCHANGED <<summarySource, rawSummaryData, txInfoList, dbTx, dbLabels,
                 cachedData, toFetch, fetchIdx, allDetailsRaw, responses,
                 processedMap, arkhamData, txsToAnalyze, tasks, allAiAnalyses,
                 events, nfaults, abortCause,
                 jsonFiles, chatDb, chatHistory>>


(* --------------------------- Analysis Dispatcher ----------------------- *)

FailedToAnalyze == "Failed to analyze: <error>"
AnalysisNotAvailable == "Analysis not available."

\* How one call of the analysis collaborator can end.
ReplyKinds == {"text", "empty", "nokey", "nondict", "apifail", "badjson"}

\* ai_client.analyze_transaction: what the task returns.  An API error and an
\* undecodable reply are caught inside and returned as a dict with an error
\* text; a reply that decodes to something other than a JSON object is
\* returned as it is.
analyze_transaction(tx, kind) ==
  CASE kind = "text"    -> [isDict |-> TRUE,  analysis |-> AiText(tx.txhash)]
    [] kind = "empty"   -> [isDict |-> TRUE,  analysis |-> ""]
    [] kind = "nokey"   -> [isDict |-> TRUE,  analysis |-> Unset]
    [] kind = "nondict" -> [isDict |-> FALSE, analysis |-> Unset]
    [] kind = "apifail" -> [isDict |-> TRUE,  analysis |-> "AI analysis failed: <error>"]
    [] kind = "badjson" -> [isDict |-> TRUE,  analysis |-> "AI returned invalid JSON: <raw>"]

\* ai_result.get('analysis', 'Analysis not available.')
AnalysisTextOf(ai_result) ==
  IF ai_result.analysis = Unset THEN AnalysisNotAvailable ELSE ai_result.analysis

\* A cache check that would take every cached detail row as analysed.
HasCachedRow(tx, cached) == tx.txhash \in CachedKeys(cached)

\* Whether the cache check of step 6 finds an analysis for the record.
HasCachedAnalysis(tx, cached) ==
  /\ tx.txhash \in CachedKeys(cached)
  /\ Truthy(CachedRow(cached, tx.txhash).analysis)

\* A pool that would start a thread for every submitted task.
ThreadPerTask(k) == TRUE

\* ThreadPoolExecutor(max_workers=10).submit (core_logic 354-357): the pool
\* starts a new thread for a submitted task only while it has fewer than
\* max_workers threads; the k-th task submitted finds a thread when k is at
\* most max_workers, and waits in the pool's queue otherwise.
HasWorker(k) == k <= MaxWorkers

NoTask == [st |-> "running", kind |-> Unset,
           result |-> [isDict |-> FALSE, analysis |-> Unset], wrote |-> Unset]

\* Step 6, first half (core_logic 337-357): records with a cached analysis get
\* it, the others are submitted to the pool; the pool starts a worker per
\* submitted task up to max_workers and queues the rest.
Dispatch ==
  /\ pc = "partition"
  /\ LET hit == {i \in Range(processedMap) : HasCachedAnalysis(processedData[i], cachedData)}
     IN  /\ processedData' =
               [i \in 1..Len(processedData) |->
                  IF i \in hit
                  THEN [processedData[i] EXCEPT
                          !.ai_analysis = CachedRow(cachedData, processedData[i].txhash).analysis]
                  ELSE processedData[i]]
         /\ txsToAnalyze' = SelectSeq(processedMap, LAMBDA i : i \notin hit)
         /\ tasks' = [k \in 1..Len(txsToAnalyze') |->
                        [NoTask EXCEPT !.st = IF HasWorker(k) THEN "running"
                                              ELSE "queued"]]
  /\ pc' = StageAfter("partition")
  /\ UNCHANGED <<summarySource, rawSummaryData, txInfoList, dbTx, dbLabels,
                 cachedData, toFetch, fetchIdx, allDetailsRaw, responses,
                 processedMap, arkhamData, allAiAnalyses, events, nfaults,
                 abortCause,
                 jsonFiles, chatDb, chatHistory>>

\* A worker finishes analyze_transaction for task k and takes the next queued
\* task, if any.
TaskFinish(k) ==
  /\ pc = "collect"
  /\ tasks[k].st = "running"
  /\ \E kind \in ReplyKinds :
       LET cost == IF kind = "text" THEN 0 ELSE 1
           queued == {j \in 1..Len(tasks) : tasks[j].st = "queued"}
           next == IF queued = {} THEN 0
                   ELSE CHOOSE j \in queued : \A j2 \in queued : j <= j2
           done == [tasks[k] EXCEPT
                      !.st = "finished", !.kind = kind,
                      !.result = analyze_transaction(
                                   processedData[txsToAnalyze[k]], kind)]
       IN  /\ nfaults + cost <= MaxFaults
           /\ nfaults' = nfaults + cost
           /\ tasks' = IF next = 0
                       THEN [tasks EXCEPT ![k] = done]
                       ELSE [tasks EXCEPT ![k] = done, ![next].st = "running"]
  /\ UNCHANGED <<pc, summarySource, rawSummaryData, txInfoList, dbTx, dbLabels,
                 cachedData, toFetch, fetchIdx, allDetailsRaw, responses,
                 processedData, processedMap, arkhamData, txsToAnalyze,
                 allAiAnalyses, events, abortCause,
                 jsonFiles, chatDb, chatHistory>>

\* tx['ai_analysis'] after the loop body of core_logic 361-374: the text, or
\* the placeholder of the except clause when ai_result.get or
\* update_ai_analysis raised.
CollectedAnalysis(ai_result, stored) ==
  IF ~ai_result.isDict \/ ~stored THEN FailedToAnalyze ELSE AnalysisTextOf(ai_result)

\* A collecting loop that would write nothing to the table.
PersistNever(db, txHash, ai_result, stored) == db

\* The transactions table after the loop body of core_logic 361-374:
\* update_ai_analysis is reached only when ai_result.get did not raise, and
\* changes the table only when it does not raise itself.
PersistCollected(db, txHash, ai_result, stored) ==
  IF ai_result.isDict /\ stored
  THEN update_ai_analysis(db, txHash, AnalysisTextOf(ai_result))
  ELSE db

\* A collecting loop that would take the futures in the order of submission.
YieldedInSubmissionOrder(k) ==
  /\ tasks[k].st = "finished"
  /\ \A j \in 1..(k - 1) : tasks[j].st = "collected"

\* A collecting loop that would not wait for the future to be done.
YieldedWhileRunning(k) == tasks[k].st \in {"running", "finished"}

\* as_completed(future_to_tx) (core_logic 361): the iterator yields any
\* future that is done and was not yielded yet.
YieldedByAsCompleted(k) == tasks[k].st = "finished"

\* Step 6, second half (core_logic 361-374): the main thread takes a finished
\* future from as_completed and runs the loop body for it.
Collect(k) ==
  /\ pc = "collect"
  /\ YieldedByAsCompleted(k)
  /\ \E stored \in BOOLEAN :
       LET ai_result == tasks[k].result
           idx == txsToAnalyze[k]
           h == processedData[idx].txhash
           cost == IF ai_result.isDict /\ ~stored THEN 1 ELSE 0
       IN  /\ (~ai_result.isDict) => stored
           /\ nfaults + cost <= MaxFaults
           /\ nfaults' = nfaults + cost
           /\ processedData' =
                [processedData EXCEPT
                   ![idx].ai_analysis = CollectedAnalysis(ai_result, stored)]
           /\ dbTx' = PersistCollected(dbTx, h, ai_result, stored)
           /\ tasks' = [tasks EXCEPT
                          ![k].st = "collected",
                          ![k].wrote = IF ~ai_result.isDict THEN "skipped"
                                       ELSE IF stored THEN "ok" ELSE "raised"]
  /\ UNCHANGED <<pc, summarySource, rawSummaryData, txInfoList, dbLabels,
                 cachedData, toFetch, fetchIdx, allDetailsRaw, responses,
                 processedMap, arkhamData, txsToAnalyze, allAiAnalyses,
                 events, abortCause,
                 jsonFiles, chatDb, chatHistory>>

(* -------------------------------- Aggregator --------------------------- *)

\* An aggregation without the filter: one entry per record of the map.
AggregateUnfiltered(processed, map) ==
  [k \in 1..Len(map) |->
     [txhash |-> processed[map[k]].txhash, text |-> processed[map[k]].ai_analysis]]

\* all_ai_analyses (core_logic 392): the truthy analyses of the values of
\* processed_data_map, in the map's order.
AggregateAnalyses(processed, map) ==
  LET kept == SelectSeq(map, LAMBDA i : Truthy(processed[i].ai_analysis))
  IN  [k \in 1..Len(kept) |->
         [txhash |-> processed[kept[k]].txhash,
          text |-> processed[kept[k]].ai_analysis]]

\* A run that would go on to step 7 without waiting for the pool.
PoolNotAwaited == TRUE

\* The end of the with-block of the pool and of the as_completed loop inside
\* it (core_logic 354-374): the loop has run its body for every future, and
\* the executor's shutdown has waited for every worker.
PoolDrained == \A k \in 1..Len(tasks) : tasks[k].st = "collected"

\* list(processed_data_map.values()), the content of the file of step 7
\* (core_logic 386-387).
JsonDump(processed, map) == [k \in 1..Len(map) |-> processed[map[k]]]

\* Steps 7-9 (core_logic 378-403): reached when the pool's with-block has
\* ended, that is when every future was collected.  The file of step 7 has
\* the time of the run in its name, so it is added to those of earlier runs.
\* The corpus is the texts joined with the separator, so it is kept as the
\* sequence of the texts.
Aggregate ==
  /\ pc = "collect"
  /\ PoolDrained
  /\ jsonFiles' = Append(jsonFiles, JsonDump(processedData, processedMap))
  /\ allAiAnalyses' = AggregateAnalyses(processedData, processedMap)
  /\ chatDb' = save_chat_context(setup_chat_database(chatDb),
                                 generate_conclusion(TextsOf(allAiAnalyses')),
                                 AnalysesSummary(TextsOf(allAiAnalyses')))
  /\ chatHistory' = << >>
  /\ events' = Append(events, Ev("report", "", TRUE))
  /\ pc' = StageAfter("collect")
  /\ UNCHANGED <<summarySource, rawSummaryData, txInfoList, dbTx, dbLabels,
                 cachedData, toFetch, fetchIdx, allDetailsRaw, responses,
                 processedData, processedMap, arkhamData, txsToAnalyze, tasks,
                 nfaults, abortCause>>

Next ==
  \/ FetchSummary
  \/ CheckCache
  \/ FetchOne
  \/ CleanDetails
  \/ ResolveLabels
  \/ Enrich
  \/ Dispatch
  \/ \E k \in 1..Len(tasks) : TaskFinish(k)
  \/ \E k \in 1..Len(tasks) : Collect(k)
  \/ Aggregate

Spec == Init /\ [][Next]_vars

(* ---------------- the Identifier Extractor on its own ------------------ *)

\* The stubs the extractor is run on: repeated hashes that differ in chain or
\* timestamp, and a numeric, a non-numeric and a missing timestamp.
ExtractStubs ==
  {Stub("0xA", "1", "1700000000000"), Stub("0xA", "56", "n/a"),
   Stub("0xB", "1", "1700000001000"), Stub("0xB", "1", Null),
   Stub("0xC", "56", "1700000000000")}

\* s cut into chunks at the positions cuts (non-decreasing, the last one
\* Len(s)); a repeated position is a chunk with no transaction.
Chunked(s, cuts) ==
  [i \in 1..Len(cuts) |->
     [transactions |-> SubSeq(s, (IF i = 1 THEN 0 ELSE cuts[i-1]) + 1, cuts[i])]]

\* Every summary of up to MaxBatches chunks holding up to MaxStubs stubs.
ExtractSummaries ==
  {<< >>} \cup
  UNION {{Chunked(s, cuts) :
            cuts \in {c \in UNION {[1..n -> 0..Len(s)] : n \in 1..MaxBatches} :
                        /\ c[Len(c)] = Len(s)
                        /\ \A i \in 1..(Len(c)-1) : c[i] <= c[i+1]}} :
         s \in SeqsUpTo(ExtractStubs, MaxStubs)}

InitExtract ==
  /\ summarySource \in ExtractSummaries
  /\ dbTx = EmptyMap
  /\ dbLabels = EmptyMap
  /\ InitRest

NextExtract == FetchSummary

SpecExtract == InitExtract /\ [][NextExtract]_vars

(* ------------------------ the Detail Cleaner on its own ---------------- *)

\* Internal transfers the cleaner is run on: with and without the queried
\* address (in either case) as an endpoint, every combination of the contract
\* flags for a transfer between third parties, and zero or undecodable
\* amounts.
CleanItxs ==
  {Itx("0xAA", "0xBB", "1", TRUE, TRUE), Itx("0xBB", "0xaa", "1", TRUE, TRUE),
   Itx("0xBB", "0xAA", "0.5", TRUE, FALSE),
   Itx("0xBB", "0xCC", "1", TRUE, TRUE), Itx("0xBB", "0xCC", "1", TRUE, FALSE),
   Itx("0xCC", "0xBB", "0.5", FALSE, TRUE), Itx("0xCC", "0xBB", "1", FALSE, FALSE),
   Itx("0xaa", "0xBB", "0", FALSE, FALSE), Itx("0xBB", "0xCC", "0.0", FALSE, FALSE),
   Itx("0xBB", "0xAA", "n/a", TRUE, FALSE)}

\* Token transfers the cleaner is run on: to the queried address in either
\* case, from it, and between third parties.
CleanTtxs ==
  {Ttx("0xCC", "0xAA", "USDT"), Ttx("0xBB", "0xaa", "WETH"),
   Ttx("0xaa", "0xCC", "DAI"), Ttx("0xBB", "0xCC", "USDT")}

\* The detail records the cleaner is run on: the primary sender is the
\* queried address in either case or a third party, with up to MaxTransfers
\* internal transfers or up to MaxTransfers token transfers.
CleanInputs ==
  {[txhash |-> "0xA", chainIndex |-> "1",
    fromDetails |-> <<Party(f, FALSE)>>, toDetails |-> <<Party("0xBB", TRUE)>>,
    internalTransactionDetails |-> x.itx, tokenTransferDetails |-> x.ttx] :
     f \in {"0xAA", "0xaa", "0xBB"},
     x \in {[itx |-> i, ttx |-> << >>] : i \in SeqsUpTo(CleanItxs, MaxTransfers)}
           \cup {[itx |-> << >>, ttx |-> t] : t \in SeqsUpTo(CleanTtxs, MaxTransfers)}}

InitClean ==
  /\ allDetailsRaw \in {<<d>> : d \in CleanInputs}
  /\ pc = "fetch"
  /\ summarySource = << >>
  /\ rawSummaryData = << >>
  /\ txInfoList = << >>
  /\ dbTx = EmptyMap
  /\ dbLabels = EmptyMap
  /\ cachedData = << >>
  /\ toFetch = << >>
  /\ fetchIdx = 1
  /\ responses = << >>
  /\ processedData = << >>
  /\ processedMap = << >>
  /\ arkhamData = EmptyMap
  /\ txsToAnalyze = << >>
  /\ tasks = << >>
  /\ allAiAnalyses = << >>
  /\ events = << >>
  /\ nfaults = 0
  /\ abortCause = ""
  /\ jsonFiles = << >>
  /\ chatDb = NoChatDb
  /\ chatHistory = << >>

NextClean == CleanDetails

SpecClean == InitClean /\ [][NextClean]_vars

(* ------------- label resolution and enrichment on their own ------------ *)

\* Endpoints the enrichment is run on: a bare string, a dict without label
\* and a dict that already carries a label, for an address in upper case, an
\* address in lower case and the empty address.
EnrichEndpoints ==
  {BareStr(a) : a \in {"0xBB", "0xcc", ""}}
  \cup {[kind |-> "dict", address |-> a, addressInfo |-> i] :
          a \in {"0xBB", "0xcc"}, i \in {Unset, "old:Label"}}

\* The cleaned records the enrichment is run on: one record whose sender,
\* one internal transfer and one token transfer have such endpoints.
EnrichInputs ==
  {[txhash |-> "0xA", chainIndex |-> "1",
    from |-> [kind |-> "dict", address |-> f.address, isContract |-> FALSE,
              addressInfo |-> f.addressInfo],
    to   |-> [kind |-> "dict", address |-> "0xAA", isContract |-> FALSE,
              addressInfo |-> Unset],
    isUserInitiated |-> FALSE,
    internalTransactions |->
      <<[from |-> i, to |-> BareStr("0xaa"), amount |-> "1",
         isFromContract |-> TRUE, isToContract |-> FALSE]>>,
    tokenTransfers |-> <<[from |-> BareStr("0xAA"), to |-> t, symbol |-> "USDT"]>>,
    ai_analysis |-> Unset] :
     f \in {e \in EnrichEndpoints : e.kind = "dict"},
     i \in EnrichEndpoints, t \in EnrichEndpoints}

\* The label caches add_labels can have left, whatever the letter case of the
\* addresses it was given.
EnrichLabelCaches ==
  {add_labels(EmptyMap, [a \in S |-> CachedLabel(Lower(a))]) :
     S \in SUBSET {"0xBB", "0xbb", "0xCC", "0xcc"}}

InitEnrich ==
  /\ processedData \in {<<tx>> : tx \in EnrichInputs}
  /\ processedMap = <<1>>
  /\ dbLabels \in EnrichLabelCaches
  /\ pc = "labels"
  /\ summarySource = << >>
  /\ rawSummaryData = << >>
  /\ txInfoList = << >>
  /\ dbTx = EmptyMap
  /\ cachedData = << >>
  /\ toFetch = << >>
  /\ fetchIdx = 1
  /\ allDetailsRaw = << >>
  /\ responses = << >>
  /\ arkhamData = EmptyMap
  /\ txsToAnalyze = << >>
  /\ tasks = << >>
  /\ allAiAnalyses = << >>
  /\ events = << >>
  /\ nfaults = 0
  /\ abortCause = ""
  /\ jsonFiles = << >>
  /\ chatDb = NoChatDb
  /\ chatHistory = << >>

NextEnrich ==
  \/ ResolveLabels
  \/ Enrich

SpecEnrich == InitEnrich /\ [][NextEnrich]_vars

(* ------------------------- the run and its repetition ------------------ *)

\* The summaries of the runs that are repeated: one chunk of one to
\* MaxRerunTx stubs, no hash listed twice.
RerunSummaries ==
  {<<[transactions |-> b]>> :
     b \in {q \in SeqsUpTo({Stub(h, "1", "1700000000000") : h \in Hashes}, MaxRerunTx) :
              q # << >> /\ \A i, j \in 1..Len(q) : q[i] = q[j] => i = j}}

InitRerun ==
  /\ summarySource \in RerunSummaries
  /\ dbTx \in InitialCaches(SummaryHashes(summarySource))
  /\ dbLabels \in InitialLabelCaches
  /\ InitRest

\* Every call of a collaborator and every cache write so far had its nominal
\* outcome: the providers answered, with the one record of the hash asked
\* for, no write raised, and every analysis task returned a text.
RunWasNominal == nfaults = 0

\* run_new_analysis is called again for the same address after a nominal run
\* that reached its report (core_logic 92, 160-165): every local of the
\* function starts afresh, the two tables and the files of data/json are what
\* the first run left.  The summary provider holds the batch of the first
\* run: the one whose stubs are those of tx_info_list.
RunAgain ==
  /\ pc = "done"
  /\ RunWasNominal
  /\ EventsOf(events, "runAgain") = << >>
  /\ summarySource' \in
       {s \in RerunSummaries :
          DedupByHash(extract_tx_info_from_summary(ChunkLists(s))) = txInfoList}
  /\ events' = Append(events, Ev("runAgain", "", TRUE))
  /\ pc' = "start"
  /\ rawSummaryData' = << >>
  /\ txInfoList' = << >>
  /\ cachedData' = << >>
  /\ toFetch' = << >>
  /\ fetchIdx' = 1
  /\ allDetailsRaw' = << >>
  /\ responses' = << >>
  /\ processedData' = << >>
  /\ processedMap' = << >>
  /\ arkhamData' = EmptyMap
  /\ txsToAnalyze' = << >>
  /\ tasks' = << >>
  /\ allAiAnalyses' = << >>
  /\ chatHistory' = << >>
  /\ UNCHANGED <<dbTx, dbLabels, jsonFiles, chatDb, nfaults, abortCause>>

NextRerun ==
  \/ Next
  \/ RunAgain

SpecRerun == InitRerun /\ [][NextRerun]_vars

(* ---------------------------- the batch reads ------------------------- *)

\* The key lists of the detail read: up to MaxTx stubs, no hash twice, the
\* empty list among them.
ReadLists ==
  {q \in SeqsUpTo({TxInfoOf(Stub(h, "1", "1700000000000")) : h \in Hashes}, MaxTx) :
     \A i, j \in 1..Len(q) : q[i] = q[j] => i = j}

\* The two batch reads on any table and any key list: the run is either at
\* the detail read of step 2 or at the label read of step 5, with no record
\* or with one record.
InitRead ==
  /\ \/ /\ pc = "cache"
        /\ txInfoList \in ReadLists
        /\ dbTx \in InitialCaches(Hashes)
        /\ dbLabels = EmptyMap
        /\ processedData = << >>
     \/ /\ pc = "labels"
        /\ txInfoList = << >>
        /\ dbTx = EmptyMap
        /\ dbLabels \in EnrichLabelCaches
        /\ processedData \in {<< >>} \cup {<<tx>> : tx \in EnrichInputs}
  /\ processedMap = BuildMap(processedData)
  /\ summarySource = << >>
  /\ rawSummaryData = << >>
  /\ cachedData = << >>
  /\ toFetch = << >>
  /\ fetchIdx = 1
  /\ allDetailsRaw = << >>
  /\ responses = << >>
  /\ arkhamData = EmptyMap
  /\ txsToAnalyze = << >>
  /\ tasks = << >>
  /\ allAiAnalyses = << >>
  /\ events = << >>
  /\ nfaults = 0
  /\ abortCause = ""
  /\ jsonFiles = << >>
  /\ chatDb = NoChatDb
  /\ chatHistory = << >>

NextRead ==
  \/ CheckCache
  \/ ResolveLabels

SpecRead == InitRead /\ [][NextRead]_vars

(* ------------------------------ the worker pool ------------------------ *)

\* The hashes of the transactions given to the pool.
PoolHashes ==
  <<"0x01", "0x02", "0x03", "0x04", "0x05", "0x06", "0x07", "0x08", "0x09",
    "0x10", "0x11", "0x12", "0x13", "0x14">>

\* The detail record and the cleaned record of the i-th of them: a plain
\* transfer sent by the queried address.
PoolDetail(i) ==
  [txhash |-> PoolHashes[i], chainIndex |-> "1",
   fromDetails |-> <<Party("0xAA", FALSE)>>,
   toDetails   |-> <<Party("0xbb", FALSE)>>,
   internalTransactionDetails |-> << >>,
   tokenTransferDetails |-> << >>]
PoolRecord(i) == CleanOne(PoolDetail(i), QueriedAddress)

\* Step 6 by itself: the run is at the partition with n records, fetched in
\* this run (a detail row each, no analysis, nothing read from the cache),
\* after f non-nominal outcomes.  What step 6 does not read (the identifier
\* list, the raw details) is not carried.
AtPartition(n, f) ==
  /\ pc = "partition"
  /\ processedData = [i \in 1..n |-> PoolRecord(i)]
  /\ dbTx = [h \in {PoolHashes[i] : i \in 1..n} |->
               Row(PoolDetail(CHOOSE i \in 1..n : PoolHashes[i] = h), Null)]
  /\ processedMap = BuildMap(processedData)
  /\ nfaults = f
  /\ summarySource = << >>
  /\ rawSummaryData = << >>
  /\ txInfoList = << >>
  /\ toFetch = << >>
  /\ fetchIdx = 1
  /\ allDetailsRaw = << >>
  /\ dbLabels = EmptyMap
  /\ cachedData = << >>
  /\ responses = << >>
  /\ arkhamData = EmptyMap
  /\ txsToAnalyze = << >>
  /\ tasks = << >>
  /\ allAiAnalyses = << >>
  /\ events = << >>
  /\ abortCause = ""
  /\ jsonFiles = << >>
  /\ chatDb = NoChatDb
  /\ chatHistory = << >>

\* MaxPoolTx records, and the collaborators answer nominally from here on.
InitPool == AtPartition(MaxPoolTx, MaxFaults)

NextPool ==
  \/ Dispatch
  \/ \E k \in 1..Len(tasks) : TaskFinish(k)
  \/ \E k \in 1..Len(tasks) : Collect(k)
  \/ Aggregate

SpecPool == InitPool /\ [][NextPool]_vars

(* ----------------------- the dispatcher's progress --------------------- *)

\* One to MaxLiveTx records at the partition, nothing gone wrong so far.
InitLive == \E n \in 1..MaxLiveTx : AtPartition(n, 0)

\* Every analysis call returns (a worker that runs a task ends it), and the
\* main thread goes on: it takes the next finished future, and leaves the
\* with-block when there is none left.
FairPool ==
  /\ WF_vars(Dispatch)
  /\ WF_vars(\E k \in 1..Len(tasks) : TaskFinish(k))
  /\ WF_vars(\E k \in 1..Len(tasks) : Collect(k))
  /\ WF_vars(Aggregate)

SpecLive == InitLive /\ [][NextPool]_vars /\ FairPool

(* =============================== properties ============================ *)

\* The stubs of a summary, chunk after chunk.
StubsOf(raw_data) == Flatten(ChunkLists(raw_data))

\* The position of the first element of list with hash h.
FirstPos(list, h) ==
  CHOOSE i \in 1..Len(list) :
    /\ list[i].txHash = h
    /\ \A j \in 1..(i-1) : list[j].txHash # h

\* The detail-provider calls made so far, as the hashes asked for, in order.
DetailCalls ==
  LET calls == SelectSeq(events, LAMBDA e : e.op = "detailCall")
  IN  [i \in 1..Len(calls) |-> calls[i].key]

CallCount(h) == Cardinality({i \in 1..Len(DetailCalls) : DetailCalls[i] = h})

\* The fetch loop has run to its end.
FetchLoopOver ==
  \/ pc \in {"labels", "enrich", "partition", "collect", "done", "aborted"}
  \/ pc = "fetch" /\ fetchIdx > Len(toFetch)

\* C1: for every sequence of summary chunks, the identifier list handed on
\* after extraction and the dedup loop holds every hash of the summary
\* exactly once, each entry is the identifier made from the first stub with
\* that hash, and the entries are in the order of those first stubs across
\* the chunks.
C1_DedupFirstSeen ==
  pc = "cache" =>
    LET stubs == StubsOf(rawSummaryData)
        seen  == {stubs[i].txHash : i \in 1..Len(stubs)}
    IN  /\ \A h \in seen :
             Cardinality({k \in 1..Len(txInfoList) : txInfoList[k].txHash = h}) = 1
        /\ \A k \in 1..Len(txInfoList) :
             /\ txInfoList[k].txHash \in seen
             /\ txInfoList[k] = TxInfoOf(stubs[FirstPos(stubs, txInfoList[k].txHash)])
        /\ \A k, l \in 1..Len(txInfoList) :
             k < l => FirstPos(stubs, txInfoList[k].txHash)
                        < FirstPos(stubs, txInfoList[l].txHash)

\* A summary of two chunks in which a hash of the first chunk comes again in
\* the second in a different stub was deduplicated to two or more entries.
C1_Witness ==
  /\ pc = "cache"
  /\ Len(rawSummaryData) = 2
  /\ Len(txInfoList) >= 2
  /\ \E i \in 1..Len(rawSummaryData[1].transactions) :
     \E j \in 1..Len(rawSummaryData[2].transactions) :
       /\ rawSummaryData[1].transactions[i].txHash
            = rawSummaryData[2].transactions[j].txHash
       /\ rawSummaryData[1].transactions[i] # rawSummaryData[2].transactions[j]

\* C2: the detail provider is never called for a hash that was in the detail
\* cache when the resolver read it, and once the fetch loop is over it has
\* been called exactly once for every deduplicated hash that was not.
C2_CacheOrFetch ==
  (pc \notin {"start", "returned", "cache"}) =>
    /\ \A h \in CachedKeys(cachedData) : CallCount(h) = 0
    /\ \A h \in Hashes : CallCount(h) <= 1
    /\ FetchLoopOver =>
         \A h \in Range(HashesOf(txInfoList)) \ CachedKeys(cachedData) :
           CallCount(h) = 1

\* The fetch loop is over in a run with a cached and an uncached hash.
C2_Witness ==
  /\ pc = "fetch"
  /\ fetchIdx > Len(toFetch)
  /\ CachedKeys(cachedData) # {}
  /\ Len(toFetch) >= 1
  /\ Len(DetailCalls) >= 1

\* C3: after enrichment, every endpoint of every transaction (top-level
\* from/to, the from/to of every internal transfer and of every token
\* transfer) whose address, lower-cased, is a key of the working label map is
\* a dict that carries that key's label as addressInfo.
C3_EnrichmentComplete ==
  (pc \in {"partition", "collect", "done"}) =>
    \A i \in 1..Len(processedData) :
      \A e \in Range(EndpointsOf(processedData[i])) :
        (Truthy(e.address) /\ Lower(e.address) \in DOMAIN arkhamData) =>
          /\ e.kind = "dict"
          /\ e.addressInfo = arkhamData[Lower(e.address)]

\* A transaction was enriched that has an internal transfer and a token
\* transfer whose endpoints are spelled in another case than the label key.
C3_Witness ==
  /\ pc = "partition"
  /\ \E i \in 1..Len(processedData) :
       /\ \E k \in 1..Len(processedData[i].internalTransactions) :
            LET a == processedData[i].internalTransactions[k].from.address
            IN  a # Lower(a) /\ Lower(a) \in DOMAIN arkhamData
       /\ \E k \in 1..Len(processedData[i].tokenTransfers) :
            LET a == processedData[i].tokenTransfers[k].to.address
            IN  a # Lower(a) /\ Lower(a) \in DOMAIN arkhamData

\* The record and the hash of task k, and how the task ended.
TaskTx(k) == processedData[txsToAnalyze[k]]
TaskHash(k) == TaskTx(k).txhash
TaskFailed(k) == tasks[k].kind \in {"nondict", "apifail", "badjson"}

\* C4: when one of the dispatched tasks has failed, every other task is still
\* collected; each of them whose collaborator call returned its text has that
\* text attached to its transaction and, its detail row being in the table,
\* stored in the row's analysis column, unless its own write raised; and
\* every dispatched transaction is still in the output.
C4_PartialFailureIsolated ==
  (pc = "done") =>
    \A f \in 1..Len(tasks) :
      TaskFailed(f) =>
        /\ \A k \in 1..Len(tasks) : tasks[k].st = "collected"
        /\ \A k \in (1..Len(tasks)) \ {f} :
             (tasks[k].kind = "text" /\ tasks[k].wrote = "ok") =>
               /\ TaskTx(k).ai_analysis = AiText(TaskHash(k))
               /\ TaskHash(k) \in DOMAIN dbTx =>
                    dbTx[TaskHash(k)].analysis = AiText(TaskHash(k))
        /\ \A k \in 1..Len(tasks) : txsToAnalyze[k] \in Range(processedMap)

\* A run ended in which one task failed and another returned its text, which
\* was attached and stored.
C4_Witness ==
  /\ pc = "done"
  /\ \E f, k \in 1..Len(tasks) :
       /\ f # k
       /\ TaskFailed(f)
       /\ tasks[k].kind = "text"
       /\ TaskHash(k) \in DOMAIN dbTx
       /\ dbTx[TaskHash(k)].analysis = AiText(TaskHash(k))

\* C5: the texts of the analyses corpus are in the relative order their
\* hashes have in the deduplicated identifier list.
C5_CorpusInListOrder ==
  (pc = "done") =>
    \A a, b \in 1..Len(allAiAnalyses) :
      (/\ a < b
       /\ allAiAnalyses[a].txhash \in Range(HashesOf(txInfoList))
       /\ allAiAnalyses[b].txhash \in Range(HashesOf(txInfoList)))
      => FirstPos(txInfoList, allAiAnalyses[a].txhash)
           < FirstPos(txInfoList, allAiAnalyses[b].txhash)

\* C6: when the dispatcher has finished, the analysis cache holds, for every
\* dispatched transaction, the result that was collected for it, the
\* placeholder of a failed task included.
C6_EveryResultPersisted ==
  (pc = "done") =>
    \A k \in 1..Len(tasks) :
      /\ TaskHash(k) \in DOMAIN dbTx
      /\ dbTx[TaskHash(k)].analysis = TaskTx(k).ai_analysis

\* C7: when the dispatcher has finished, every transaction of the output
\* carries a non-empty analysis string, which is the collaborator's text when
\* its task succeeded and the placeholder when it failed.
C7_EveryTxHasAnalysis ==
  (pc = "done") =>
    /\ \A i \in Range(processedMap) : Truthy(processedData[i].ai_analysis)
    /\ \A k \in 1..Len(tasks) :
         /\ tasks[k].kind = "text" => TaskTx(k).ai_analysis = AiText(TaskHash(k))
         /\ tasks[k].kind = "nondict" => TaskTx(k).ai_analysis = FailedToAnalyze

\* C8: no run is ended by the failure of a cache write.
C8_WriteFailureSwallowed ==
  abortCause \notin {"add_transaction_detail", "add_labels", "update_ai_analysis"}

\* C9: a step 1 in which the summary provider yields no stub ends the run
\* there: it goes to the return, with no detail-cache read, provider call,
\* label lookup, analysis task or cache write, and no step follows the return.
C9_NothingFetchedEndsRun ==
  [][/\ (pc = "start" /\ Len(StubsOf(rawSummaryData')) = 0) =>
          /\ pc' = "returned"
          /\ events' = << >>
          /\ tasks' = << >>
          /\ cachedData' = << >>
          /\ responses' = << >>
          /\ dbTx' = dbTx
          /\ dbLabels' = dbLabels
     /\ pc # "returned"]_vars

\* The provider held transactions for the address, yielded nothing, and the
\* run returned.
C9_Witness ==
  /\ pc = "returned"
  /\ summarySource # << >>
  /\ Len(StubsOf(summarySource)) > 0
  /\ rawSummaryData = << >>

\* C10: the detail provider is asked for the items of toFetch one after the
\* other, in order, whatever the earlier calls did, so that when the loop is
\* over every item was asked for; and the details handed to the cleaner are
\* the cached details followed by every record the calls returned.
C10_FetchLoopContinues ==
  (pc \notin {"start", "returned", "cache"}) =>
    /\ Len(DetailCalls) <= Len(toFetch)
    /\ \A i \in 1..Len(DetailCalls) : DetailCalls[i] = toFetch[i].txHash
    /\ FetchLoopOver => Len(DetailCalls) = Len(toFetch)
    /\ Len(responses) = Len(DetailCalls)
    /\ allDetailsRaw =
         [i \in 1..Len(cachedData) |-> cachedData[i].detail]
         \o Flatten([i \in 1..Len(responses) |-> responses[i].data])

\* A run with a cached detail in which a call raised and the call for a later
\* item returned a record, handed to the cleaner.
C10_Witness ==
  /\ pc = "labels"
  /\ Len(cachedData) >= 1
  /\ \E i, j \in 1..Len(responses) :
       /\ i < j
       /\ responses[i].raised
       /\ responses[j].data # << >>

\* The positions in events of the detail-provider calls.
DetailCallPos == {i \in 1..Len(events) : events[i].op = "detailCall"}

\* C11: between any two consecutive detail-provider calls of a run the
\* inter-request sleep was taken, whether the earlier call succeeded or not.
C11_DelayBetweenCalls ==
  \A i, j \in DetailCallPos :
    (i < j /\ \A m \in (i+1)..(j-1) : m \notin DetailCallPos) =>
      \E m \in (i+1)..(j-1) : events[m].op = "sleep"

\* C12: within one run the detail provider is called at most once for every
\* hash, and at most one analysis task is submitted for every hash.
C12_AtMostOncePerHash ==
  /\ \A i, j \in 1..Len(DetailCalls) : DetailCalls[i] = DetailCalls[j] => i = j
  /\ \A k, l \in 1..Len(tasks) : TaskHash(k) = TaskHash(l) => k = l

\* Tasks were submitted in a run whose details hold two records with the same
\* hash, one of them fetched.
C12_Witness ==
  /\ pc = "collect"
  /\ Len(tasks) >= 1
  /\ Len(DetailCalls) >= 1
  /\ \E i, j \in 1..Len(processedData) :
       i < j /\ processedData[i].txhash = processedData[j].txhash

\* C13: the records the run outputs (the values of processed_data_map) and
\* the entries of the corpus have pairwise different hashes, whatever records
\* the detail provider returned.
C13_OneRecordPerHash ==
  /\ \A a, b \in 1..Len(processedMap) :
       processedData[processedMap[a]].txhash = processedData[processedMap[b]].txhash
         => a = b
  /\ \A a, b \in 1..Len(allAiAnalyses) :
       allAiAnalyses[a].txhash = allAiAnalyses[b].txhash => a = b

\* A run ended whose details held a cached record and a fetched record with
\* the same hash, and the corpus has an entry for that hash.
C13_Witness ==
  /\ pc = "done"
  /\ \E i, j \in 1..Len(processedData) :
       /\ i <= Len(cachedData)
       /\ Len(cachedData) < j
       /\ processedData[i].txhash = processedData[j].txhash
       /\ \E a \in 1..Len(allAiAnalyses) :
            allAiAnalyses[a].txhash = processedData[i].txhash

\* The corpus entries of the record at index i of processed_data.
CorpusEntriesOf(i) ==
  {a \in 1..Len(allAiAnalyses) : allAiAnalyses[a].txhash = processedData[i].txhash}

\* C14: when the run has aggregated, an output transaction has an entry in
\* the corpus exactly when its analysis is present and non-empty, the entry is
\* that analysis, and a transaction without entry is still in the output.
C14_CorpusIffNonEmpty ==
  (pc = "done") =>
    /\ \A i \in Range(processedMap) :
         /\ (CorpusEntriesOf(i) # {}) <=> Truthy(processedData[i].ai_analysis)
         /\ \A a \in CorpusEntriesOf(i) :
              allAiAnalyses[a].text = processedData[i].ai_analysis
    /\ \A a \in 1..Len(allAiAnalyses) :
         \E i \in Range(processedMap) : a \in CorpusEntriesOf(i)
    /\ \A k \in 1..Len(tasks) : txsToAnalyze[k] \in Range(processedMap)

\* A run ended in which one output transaction has an empty analysis and
\* another has a text that is in the corpus.
C14_Witness ==
  /\ pc = "done"
  /\ \E i, j \in Range(processedMap) :
       /\ processedData[i].ai_analysis = ""
       /\ Truthy(processedData[j].ai_analysis)
       /\ CorpusEntriesOf(j) # {}

\* The analysis strings that stand for a failed analysis: the placeholder of
\* the collecting loop and the error texts analyze_transaction returns.
FailureTexts ==
  {FailedToAnalyze, "AI analysis failed: <error>", "AI returned invalid JSON: <raw>"}

\* C15: no entry of the corpus is the analysis of a failed task.
C15_FailedAnalysesFiltered ==
  \A a \in 1..Len(allAiAnalyses) : allAiAnalyses[a].text \notin FailureTexts

\* C16: when a task returned its text and the analysis write did not raise,
\* the transactions table holds that text under the task's hash, whether or
\* not the detail write for the hash had succeeded.
C16_AnalysisStoredWithoutDetail ==
  (pc = "done") =>
    \A k \in 1..Len(tasks) :
      (tasks[k].kind = "text" /\ tasks[k].wrote = "ok") =>
        /\ TaskHash(k) \in DOMAIN dbTx
        /\ dbTx[TaskHash(k)].analysis = AiText(TaskHash(k))

\* C17: a malformed detail record among the details does not end the run:
\* no run that holds one is aborted by the cleaner.
C17_MalformedRecordSkipped ==
  (\E i \in 1..Len(allDetailsRaw) : CleanRaises(allDetailsRaw[i])) =>
    ~(pc = "aborted" /\ abortCause = "process_and_clean_details")

\* The from, to and amount of the entries of a list of internal transfers, raw
\* or cleaned.
ItxKeys(list, raw) ==
  [i \in 1..Len(list) |->
     IF raw THEN <<list[i].from, list[i].to, list[i].amount>>
     ELSE <<list[i].from.address, list[i].to.address, list[i].amount>>]

TtxKeys(list, raw) ==
  [i \in 1..Len(list) |->
     IF raw THEN <<list[i].from, list[i].to, list[i].symbol>>
     ELSE <<list[i].from.address, list[i].to.address, list[i].symbol>>]

\* C19: a cleaned record is user-initiated exactly when the primary sender of
\* the raw record is the queried address, compared case-insensitively; a
\* user-initiated record keeps all its token transfers, and any other record
\* keeps, in order, exactly those whose destination is the queried address,
\* compared case-insensitively.
C19_TokenTransferFilter ==
  (pc = "labels") =>
    \A i \in 1..Len(processedData) :
      LET raw == allDetailsRaw[i].tokenTransferDetails
          byUser == Lower(allDetailsRaw[i].fromDetails[1].address)
                      = Lower(QueriedAddress)
          toUser == SelectSeq(raw, LAMBDA t : Lower(t.to) = Lower(QueriedAddress))
      IN  /\ processedData[i].isUserInitiated = byUser
          /\ TtxKeys(processedData[i].tokenTransfers, FALSE)
               = TtxKeys(IF byUser THEN raw ELSE toUser, TRUE)

\* A record sent by a third party was cleaned, of whose two token transfers
\* one goes to the queried address spelled in another case and is the one kept.
C19_Witness ==
  /\ pc = "labels"
  /\ \E i \in 1..Len(processedData) :
       /\ ~processedData[i].isUserInitiated
       /\ Len(allDetailsRaw[i].tokenTransferDetails) = 2
       /\ Len(processedData[i].tokenTransfers) = 1
       /\ processedData[i].tokenTransfers[1].to.address # QueriedAddress

\* The label-provider calls in a sequence of events.
LabelCallsIn(evs) == SelectSeq(evs, LAMBDA e : e.op = "labelCall")

\* C20: the label provider is called at most once in a run.  The step that
\* resolves the labels calls it exactly when a collected address is absent
\* from the label cache, and then with exactly the absent addresses; when its
\* result is not empty and the write does not raise, the result is in the
\* label cache and in the working label map after the step, next to the
\* cached labels of the collected addresses.
C20_OneLabelCall ==
  [][/\ Len(LabelCallsIn(events')) <= 1
     /\ (pc = "labels") =>
          LET collected ==
                UNION {{e.address : e \in Range(EndpointsOf(processedData[i]))} :
                         i \in 1..Len(processedData)} \ {Null, ""}
              absent == {a \in collected : Lower(a) \notin DOMAIN dbLabels}
              calls  == LabelCallsIn(events')
              got    == IF calls # << >> /\ calls[1].ok
                        THEN {Lower(a) : a \in absent} \cap ArkhamKnown
                        ELSE {}
          IN  /\ (calls # << >>) <=> (absent # {})
              /\ \A c \in 1..Len(calls) : calls[c].asked = absent
              /\ (pc' # "aborted") =>
                   /\ \A a \in got :
                        /\ a \in DOMAIN dbLabels' /\ dbLabels'[a] = ArkhamLabel(a)
                        /\ a \in DOMAIN arkhamData' /\ arkhamData'[a] = ArkhamLabel(a)
                   /\ \A a \in DOMAIN dbLabels : dbLabels'[a] = dbLabels[a]
                   /\ DOMAIN dbLabels' = DOMAIN dbLabels \cup got
                   /\ DOMAIN arkhamData'
                        = ({Lower(a) : a \in collected} \cap DOMAIN dbLabels) \cup got
     /\ (pc # "labels") => LabelCallsIn(events') = LabelCallsIn(events)]_vars

\* The labels were resolved in a run in which one collected address had a
\* cached label and another was asked for, returned, stored and merged.
C20_Witness ==
  /\ pc = "enrich"
  /\ Len(LabelCallsIn(events)) = 1
  /\ LabelCallsIn(events)[1].ok
  /\ LabelCallsIn(events)[1].asked # {}
  /\ "0xbb" \in DOMAIN arkhamData /\ arkhamData["0xbb"] = CachedLabel("0xbb")
  /\ "0xcc" \in DOMAIN arkhamData /\ arkhamData["0xcc"] = ArkhamLabel("0xcc")
  /\ "0xcc" \in DOMAIN dbLabels /\ dbLabels["0xcc"] = ArkhamLabel("0xcc")

\* C21: enrichment leaves an endpoint that already carries addressInfo as it
\* is, and leaves an endpoint whose address has no label in the working map
\* as it is (a bare string stays a bare string).
C21_EnrichKeepsLabels ==
  [][(pc = "enrich") =>
       \A i \in 1..Len(processedData) :
         LET before == EndpointsOf(processedData[i])
             after  == EndpointsOf(processedData'[i])
         IN  /\ Len(after) = Len(before)
             /\ \A k \in 1..Len(before) :
                  (\/ before[k].addressInfo # Unset
                   \/ ~Truthy(before[k].address)
                   \/ Lower(before[k].address) \notin DOMAIN arkhamData)
                  => after[k] = before[k]]_vars

\* A record was enriched that held an endpoint with an earlier label whose
\* address has another label in the working map, and it still holds the
\* earlier one; another endpoint of it got its label from the map.
C21_Witness ==
  /\ pc = "partition"
  /\ \E i \in 1..Len(processedData) :
       \E k, l \in 1..Len(EndpointsOf(processedData[i])) :
         LET e == EndpointsOf(processedData[i])[k]
             g == EndpointsOf(processedData[i])[l]
         IN  /\ e.addressInfo = "old:Label"
             /\ Lower(e.address) \in DOMAIN arkhamData
             /\ g.addressInfo # Unset
             /\ g.addressInfo # "old:Label"

\* C22: once the dispatcher has partitioned, an output transaction has an
\* analysis task exactly when the batch read of the detail cache gave no
\* non-empty analysis for its hash; a transaction for which it gave one
\* carries that text and has no task, and no task is submitted twice.
C22_DispatchExactlyUnanalysed ==
  (pc \in {"collect", "done"}) =>
    /\ Len(tasks) = Len(txsToAnalyze)
    /\ \A k, l \in 1..Len(txsToAnalyze) : txsToAnalyze[k] = txsToAnalyze[l] => k = l
    /\ \A i \in Range(processedMap) :
         LET h == processedData[i].txhash
             rows == {r \in Range(cachedData) : r.txHash = h /\ Truthy(r.analysis)}
         IN  /\ (i \in Range(txsToAnalyze)) <=> (rows = {})
             /\ \A r \in rows : processedData[i].ai_analysis = r.analysis

\* The dispatcher partitioned a run in which one transaction had a cached
\* analysis, one had a cached detail without analysis and got a task.
C22_Witness ==
  /\ pc = "collect"
  /\ \E i, j \in Range(processedMap) :
       /\ i \notin Range(txsToAnalyze)
       /\ Truthy(processedData[i].ai_analysis)
       /\ j \in Range(txsToAnalyze)
       /\ processedData[j].txhash \in CachedKeys(cachedData)

\* The place of a stage in the body of run_new_analysis; the two ends of a
\* run come last.
StageRank(stage) ==
  CASE stage = "start"     -> 1
    [] stage = "cache"     -> 2
    [] stage = "fetch"     -> 3
    [] stage = "labels"    -> 4
    [] stage = "enrich"    -> 5
    [] stage = "partition" -> 6
    [] stage = "collect"   -> 7
    [] stage \in {"done", "returned", "aborted"} -> 8


\* C23: a run never goes back to an earlier stage.  A detail-provider call is
\* made only in the fetch stage, before any label call and any submission;
\* the label call only in the label stage, before any submission; the tasks
\* are submitted only in the partition stage; and the report is asked for
\* only after all of them, as the last step.
C23_StagesInOrder ==
  [][/\ StageRank(pc') >= StageRank(pc)
     /\ (EventsOf(events', "detailCall") # EventsOf(events, "detailCall")) =>
          /\ pc = "fetch"
          /\ EventsOf(events, "labelCall") = << >>
          /\ tasks = << >>
          /\ EventsOf(events, "report") = << >>
     /\ (EventsOf(events', "labelCall") # EventsOf(events, "labelCall")) =>
          /\ pc = "labels"
          /\ tasks = << >>
          /\ EventsOf(events, "report") = << >>
     /\ (Len(tasks') # Len(tasks)) =>
          /\ pc = "partition"
          /\ tasks = << >>
          /\ EventsOf(events', "report") = << >>
     /\ (EventsOf(events', "report") # EventsOf(events, "report")) =>
          /\ pc = "collect"
          /\ pc' = "done"
          /\ EventsOf(events, "report") = << >>]_vars

\* A run ended in which the detail provider and the label provider were
\* called, a task was submitted and the report was asked for.
C23_Witness ==
  /\ pc = "done"
  /\ EventsOf(events, "detailCall") # << >>
  /\ EventsOf(events, "labelCall") # << >>
  /\ Len(tasks) >= 1
  /\ EventsOf(events, "report") # << >>

\* The addresses of the endpoints of the records of processed_data, without
\* None and the empty string.
CollectedNow ==
  UNION {{e.address : e \in Range(EndpointsOf(processedData[i]))} :
           i \in 1..Len(processedData)} \ {Null, ""}

\* C24: a step of label resolution in which the label provider fails goes on
\* to the enrichment without exception, writes nothing to the label cache,
\* and leaves as working label map the cached labels of the collected
\* addresses.
C24_LabelFailureIsEmptyMap ==
  [][(/\ pc = "labels"
      /\ \E c \in 1..Len(events') : events'[c].op = "labelCall" /\ ~events'[c].ok)
     => /\ pc' = "enrich"
        /\ abortCause' = ""
        /\ dbLabels' = dbLabels
        /\ EventsOf(events', "labelWrite") = << >>
        /\ arkhamData' = [a \in {Lower(x) : x \in CollectedNow} \cap DOMAIN dbLabels |->
                            dbLabels[a]]]_vars

\* The label provider failed in a run that had a cached label for one
\* collected address and none for another, and the run went on to enrich.
C24_Witness ==
  /\ pc = "enrich"
  /\ \E c \in 1..Len(events) : events[c].op = "labelCall" /\ ~events[c].ok
  /\ arkhamData # EmptyMap
  /\ \E x \in CollectedNow : Lower(x) \in ArkhamKnown \ DOMAIN arkhamData

\* The position in the event log at which the second run started; 0 when
\* there is no second run.
RerunAt ==
  IF \E r \in 1..Len(events) : events[r].op = "runAgain"
  THEN CHOOSE r \in 1..Len(events) : events[r].op = "runAgain"
  ELSE 0

C26_BatchReadExact ==
  [][/\ pc = "cache" =>
          LET asked == Range(HashesOf(txInfoList))
          IN  /\ pc' = "fetch"
              /\ CachedKeys(cachedData') = asked \cap DOMAIN dbTx
              /\ Len(cachedData') = Cardinality(asked \cap DOMAIN dbTx)
              /\ \A i \in 1..Len(cachedData') :
                   /\ cachedData'[i].detail = dbTx[cachedData'[i].txHash].detail
                   /\ cachedData'[i].analysis = dbTx[cachedData'[i].txHash].analysis
              /\ asked = {} => cachedData' = << >>
     /\ (pc = "labels" /\ pc' = "enrich") =>
          LET asked == {Lower(a) : a \in CollectedNow}
          IN  /\ (DOMAIN arkhamData') \cap (DOMAIN dbLabels) = asked \cap DOMAIN dbLabels
              /\ \A a \in asked \cap DOMAIN dbLabels : arkhamData'[a] = dbLabels[a]
              /\ \A c \in 1..Len(events') :
                   events'[c].op = "labelCall" =>
                     events'[c].asked = {a \in CollectedNow : Lower(a) \notin DOMAIN dbLabels}
              /\ asked = {} => arkhamData' = EmptyMap]_vars

\* The detail read was asked for a hash that has a row and for one that has
\* none, on a table that also has a row that was not asked for.
C26_Witness ==
  /\ pc = "fetch"
  /\ Len(cachedData) = 1
  /\ Truthy(cachedData[1].analysis)
  /\ Len(toFetch) = 1
  /\ DOMAIN dbTx \ Range(HashesOf(txInfoList)) # {}

\* C27: a label the label cache holds for an address, whatever the letter
\* case it was stored under, is in the working map for every collected
\* spelling of that address, such a spelling is not among the addresses sent
\* to the label provider, and the enrichment attaches the label to every
\* occurrence of the address that carries no label yet, in whatever letter
\* case the occurrence is written.
C27_LabelsCaseInsensitive ==
  [][/\ (pc = "labels" /\ pc' = "enrich") =>
          \A x \in CollectedNow : \A k \in DOMAIN dbLabels :
            Lower(k) = Lower(x) =>
              /\ Lower(x) \in DOMAIN arkhamData'
              /\ arkhamData'[Lower(x)] = dbLabels[k]
              /\ \A c \in 1..Len(events') :
                   events'[c].op = "labelCall" => x \notin events'[c].asked
     /\ pc = "enrich" =>
          \A i \in 1..Len(processedData) :
            \A n \in 1..Len(EndpointsOf(processedData[i])) :
              LET b == EndpointsOf(processedData[i])[n]
                  a == EndpointsOf(processedData'[i])[n]
              IN  (Truthy(b.address) /\ b.addressInfo = Unset) =>
                    \A k \in DOMAIN dbLabels :
                      Lower(k) = Lower(b.address) =>
                        /\ a.kind = "dict"
                        /\ a.address = b.address
                        /\ a.addressInfo = dbLabels[k]]_vars

\* The record was enriched with a label read from the cache for an address
\* the record spells in upper case; the label provider was asked for another
\* address and not for that one.
C27_Witness ==
  /\ pc = "partition"
  /\ \E i \in 1..Len(processedData) :
       \E e \in Range(EndpointsOf(processedData[i])) :
         /\ e.address = "0xBB"
         /\ e.addressInfo = CachedLabel("0xbb")
  /\ \E c \in 1..Len(events) :
       /\ events[c].op = "labelCall"
       /\ events[c].asked # {}
       /\ "0xBB" \notin events[c].asked

\* The analysis tasks a worker thread is executing.
RunningTasks == {k \in 1..Len(tasks) : tasks[k].st = "running"}

\* C28: at every moment of the dispatch at most 10 analysis tasks are being
\* executed, however many transactions were submitted.
C28_AtMostTenRunning == Cardinality(RunningTasks) <= 10

\* More than ten tasks were submitted; ten are being executed, among them
\* one that had to wait until a worker had ended another task.
C28_Witness ==
  /\ pc = "collect"
  /\ Len(tasks) > 10
  /\ Cardinality(RunningTasks) = 10
  /\ \E k \in RunningTasks : k > 10

\* C29: during the collection the loop body can run for every task that has
\* completed, whatever the state of the tasks submitted before it: its result
\* is attached and persisted while an earlier-submitted task is still running.
C29_CollectedInCompletionOrder ==
  pc = "collect" =>
    \A k \in 1..Len(tasks) : tasks[k].st = "finished" => ENABLED Collect(k)

\* The result of a task was attached and written to the table while a task
\* submitted before it is still being executed.
C29_Witness ==
  /\ pc = "collect"
  /\ \E j, k \in 1..Len(tasks) :
       /\ j < k
       /\ tasks[j].st = "running"
       /\ tasks[k].st = "collected"
       /\ tasks[k].wrote = "ok"
       /\ TaskTx(k).ai_analysis = AiText(TaskHash(k))
       /\ dbTx[TaskHash(k)].analysis = AiText(TaskHash(k))

\* C30: a stub whose txTime is missing or is not a string of digits gives an
\* identifier with an empty display time; that stub and every other stub of
\* the batch still give an identifier with the stub's own hash and chain id
\* (the first stub of each hash, the later ones being dropped by the dedup).
C30_BadTimestampKept ==
  pc = "cache" =>
    LET stubs == StubsOf(rawSummaryData)
        seen  == {stubs[i].txHash : i \in 1..Len(stubs)}
    IN  /\ Len(txInfoList) = Cardinality(seen)
        /\ \A i \in 1..Len(stubs) :
             i = FirstPos(stubs, stubs[i].txHash) =>
               \E k \in 1..Len(txInfoList) :
                 /\ txInfoList[k].txHash = stubs[i].txHash
                 /\ txInfoList[k].chainIndex = stubs[i].chainIndex
                 /\ (stubs[i].txTime \in {Null, Unset, "", "n/a"})
                      <=> (txInfoList[k].timestamp = "")

\* A batch was extracted that holds a stub with a non-numeric time, a stub
\* with no time and a stub with a numeric time, each of another hash.
C30_Witness ==
  /\ pc = "cache"
  /\ Len(txInfoList) = 3
  /\ \E i, j, k \in 1..Len(StubsOf(rawSummaryData)) :
       /\ StubsOf(rawSummaryData)[i].txTime = "n/a"
       /\ StubsOf(rawSummaryData)[j].txTime = Null
       /\ StubsOf(rawSummaryData)[k].txTime = "1700000000000"
  /\ \E a, b \in 1..3 :
       /\ a # b
       /\ txInfoList[a].timestamp = ""
       /\ txInfoList[b].timestamp = ""
  /\ \E c \in 1..3 : txInfoList[c].timestamp = "2023-11-14 22:13:20"

\* C31: a hash for which the transactions table holds a non-empty analysis
\* still has a row with a non-empty analysis after every later write to the
\* table, a detail write for that hash included.
C31_AnalysisNeverErased ==
  [][\A h \in DOMAIN dbTx :
       Truthy(dbTx[h].analysis) =>
         /\ h \in DOMAIN dbTx'
         /\ Truthy(dbTx'[h].analysis)]_vars

\* C32: a transaction whose task returned a text keeps that text as its
\* analysis when update_ai_analysis raised for it, and the corpus holds that
\* text for it, not a text about the write.
C32_WriteFailureKeepsText ==
  \A k \in 1..Len(tasks) :
    (tasks[k].st = "collected" /\ tasks[k].kind = "text" /\ tasks[k].wrote = "raised") =>
      /\ TaskTx(k).ai_analysis = AiText(TaskHash(k))
      /\ pc = "done" =>
           \A c \in 1..Len(allAiAnalyses) :
             allAiAnalyses[c].txhash = TaskHash(k) =>
               allAiAnalyses[c].text = AiText(TaskHash(k))

\* The tasks whose worker has not yet returned: analyze_transaction reads the
\* record (json.dumps of the whole dict) while the task is in this set.
UnfinishedTasks == {k \in 1..Len(tasks) : tasks[k].st \in {"queued", "running"}}

\* C33: during the collection no step changes the record of a task whose
\* worker has not returned, and one step writes the analysis of at most one
\* task, to at most one row of the transactions table.
C33_NoWriteWhileTaskReads ==
  [][pc = "collect" =>
       /\ \A k \in UnfinishedTasks :
            processedData'[txsToAnalyze[k]] = processedData[txsToAnalyze[k]]
       /\ Cardinality({k \in 1..Len(tasks) :
                         tasks[k].wrote = Unset /\ tasks'[k].wrote # Unset}) <= 1
       /\ Cardinality({h \in DOMAIN dbTx : dbTx'[h] # dbTx[h]}) <= 1
       /\ \A k \in 1..Len(tasks) :
            (tasks[k].wrote = Unset /\ tasks'[k].wrote # Unset) =>
              /\ tasks[k].st = "finished"
              /\ \A h \in DOMAIN dbTx : dbTx'[h] # dbTx[h] => h = TaskHash(k)]_vars

\* The result of one task was attached and stored while the worker of
\* another task is still reading its own record, which is unchanged.
C33_Witness ==
  /\ pc = "collect"
  /\ \E j, k \in 1..Len(tasks) :
       /\ tasks[j].st = "running"
       /\ TaskTx(j).ai_analysis = Unset
       /\ tasks[k].st = "collected"
       /\ tasks[k].wrote = "ok"
       /\ TaskTx(k).ai_analysis # Unset

\* C34: the report is asked for only when every submitted task has been
\* collected, and a run that has reached the dispatcher, in which every
\* analysis call returns, reaches the aggregation.
C34_DispatcherFinishes ==
  /\ [](EventsOf(events, "report") # << >> =>
          \A k \in 1..Len(tasks) : tasks[k].st = "collected" /\ tasks[k].wrote # Unset)
  /\ [](allAiAnalyses # << >> => \A k \in 1..Len(tasks) : tasks[k].st = "collected")
  /\ (pc \in {"partition", "collect"}) ~> (pc = "done")

\* The run is over with its report, after two or more tasks were collected,
\* one of which had ended on a reply that was not a text.
C34_Witness ==
  /\ pc = "done"
  /\ EventsOf(events, "report") # << >>
  /\ Len(tasks) >= 2
  /\ \E k \in 1..Len(tasks) : tasks[k].kind # "text"
  /\ \A k \in 1..Len(tasks) : tasks[k].st = "collected"

(* ------------------- the chat store and the chat sessions --------------- *)

\* A line typed at the prompt, as its sequence of characters.
ChatInputs ==
  {<< >>, <<" ">>, <<"h", "i">>, <<" ", "o", "k", " ">>,
   <<"E", "x", "i", "t">>, <<" ", "q", "u", "i", "t">>, <<"U+9000", "U+51FA">>}

\* str.strip(): the line without its leading and trailing blanks.
RECURSIVE LStrip(_)
LStrip(q) == IF q # << >> /\ Head(q) = " " THEN LStrip(Tail(q)) ELSE q

RECURSIVE RStrip(_)
RStrip(q) ==
  IF q # << >> /\ q[Len(q)] = " " THEN RStrip(SubSeq(q, 1, Len(q) - 1)) ELSE q

Strip(q) == RStrip(LStrip(q))

\* str.lower() on the characters of the model.
LowerChar(c) ==
  CASE c = "E" -> "e"
    [] c = "X" -> "x"
    [] c = "I" -> "i"
    [] c = "T" -> "t"
    [] c = "Q" -> "q"
    [] c = "U" -> "u"
    [] OTHER -> c

StrLower(q) == [i \in 1..Len(q) |-> LowerChar(q[i])]

\* The list of core_logic 512; the two characters of its third entry are
\* written by their code points.
ExitCommands == {<<"e", "x", "i", "t">>, <<"q", "u", "i", "t">>, <<"U+9000", "U+51FA">>}

\* user_query.lower() in ['exit', 'quit', <U+9000 U+51FA>] (core_logic 512).
IsExitCommand(user_query) == StrLower(user_query) \in ExitCommands

\* An exit test that would compare the line as typed.
IsExitCommandExactCase(user_query) == user_query \in ExitCommands

\* ai_conclusion.chat_with_report: the collaborator's answer, or the error
\* text of the except clause (ai_conclusion 277-280) when the call raised.
chat_with_report(user_query, answered) ==
  IF answered THEN <<"re:">> \o user_query ELSE <<"chat error">>

Message(role, content) == [role |-> role, content |-> content]

\* The greeting app.py puts in st.session_state.messages (app.py 440, 170).
Greeting == Message("assistant", <<"greeting">>)

\* The prompts typed in the chat area of app.py.
AppPrompts == {<<"h", "i">>, <<"o", "k">>}

\* The analyses a completed pipeline hands to step 8.
ChatAnalyses ==
  {<<"analysis of 0xA">>, <<"analysis of 0xA", "analysis of 0xB">>}

\* How many analyses of the address have produced their report.
Era(evs) == Len(EventsOf(evs, "report"))

\* A "session" event holds the history start_chat_session was entered with,
\* and whether it was loaded from the chat database.

\* Steps 8-10 of run_new_analysis (core_logic 396-412), the pipeline before
\* them reduced to the analyses it produced: the report, the schema, the
\* context, and start_chat_session entered with no history.
CliAnalysis(texts) ==
  /\ pc = "menu"
  /\ Era(events) < MaxAnalyses
  /\ chatDb' = save_chat_context(setup_chat_database(chatDb),
                                 generate_conclusion(texts), AnalysesSummary(texts))
  /\ events' = events \o
       <<Ev("report", "", TRUE),
         Ev("saveContext", "cli", ~SaveContextRaises(setup_chat_database(chatDb))),
         Ev("session", << >>, FALSE)>>
  /\ chatHistory' = << >>
  /\ pc' = "cliChat"
  /\ UNCHANGED <<summarySource, rawSummaryData, txInfoList, dbTx, dbLabels,
                 cachedData, toFetch, fetchIdx, allDetailsRaw, responses,
                 processedData, processedMap, arkhamData, txsToAnalyze, tasks,
                 allAiAnalyses, nfaults, abortCause, jsonFiles>>

\* core_logic.restore_chat_session for an address that has a chat file:
\* load_chat_session, then start_chat_session with the loaded history; a
\* load that raises is caught and printed.
CliRestore ==
  /\ pc = "menu"
  /\ chatDb.file # "absent"
  /\ Len(EventsOf(events, "input")) < MaxInputs
  /\ IF LoadRaises(chatDb)
     THEN UNCHANGED <<pc, chatHistory, events>>
     ELSE /\ chatHistory' = load_chat_session(chatDb).history
          /\ events' = Append(events, Ev("session", load_chat_session(chatDb).history, TRUE))
          /\ pc' = "cliChat"
  /\ UNCHANGED <<summarySource, rawSummaryData, txInfoList, dbTx, dbLabels,
                 cachedData, toFetch, fetchIdx, allDetailsRaw, responses,
                 processedData, processedMap, arkhamData, txsToAnalyze, tasks,
                 allAiAnalyses, nfaults, abortCause, jsonFiles, chatDb>>

\* One round of the loop of start_chat_session (core_logic 507-542) on the
\* line q: an exit command ends the session, an empty line is skipped, any
\* other line is saved, answered, appended with its answer, and the answer
\* saved.  stored1 and stored2 say whether the two writes reached the table,
\* answered whether the collaborator replied.
CliInput(q, stored1, answered, stored2) ==
  LET user_query == Strip(q)
      ai_response == chat_with_report(user_query, answered)
      era == Era(events)
      fails == (IF stored1 THEN 0 ELSE 1) + (IF answered THEN 0 ELSE 1)
                 + (IF stored2 THEN 0 ELSE 1)
  IN  /\ pc = "cliChat"
      /\ Len(EventsOf(events, "input")) < MaxInputs
      /\ events' = Append(events, Ev("input", q, TRUE))
      /\ IF IsExitCommand(user_query)
         THEN /\ stored1 /\ answered /\ stored2
              /\ pc' = "menu"
              /\ UNCHANGED <<chatDb, chatHistory, nfaults>>
         ELSE IF user_query = << >>
         THEN /\ stored1 /\ answered /\ stored2
              /\ UNCHANGED <<pc, chatDb, chatHistory, nfaults>>
         ELSE /\ nfaults + fails <= MaxFaults
              /\ nfaults' = nfaults + fails
              /\ chatDb' = save_chat_message(
                             save_chat_message(chatDb, "user", user_query, era, stored1),
                             "assistant", ai_response, era, stored2)
              /\ chatHistory' = chatHistory \o
                   <<Message("user", user_query), Message("assistant", ai_response)>>
              /\ pc' = pc
      /\ UNCHANGED <<summarySource, rawSummaryData, txInfoList, dbTx, dbLabels,
                     cachedData, toFetch, fetchIdx, allDetailsRaw, responses,
                     processedData, processedMap, arkhamData, txsToAnalyze, tasks,
                     allAiAnalyses, abortCause, jsonFiles>>

\* The start of the analysis flow of app.py (app.py 201-232), open only
\* while no analysis is shown: reset_chat_history; when it raises, the outer
\* except (app.py 447) ends the flow.
AppAnalysisStart ==
  /\ pc = "menu"
  /\ Era(events) < MaxAnalyses
  /\ chatDb' = reset_chat_history(chatDb)
  /\ pc' = IF ResetRaises(chatDb) THEN "menu" ELSE "appAnalysis"
  /\ UNCHANGED <<summarySource, rawSummaryData, txInfoList, dbTx, dbLabels,
                 cachedData, toFetch, fetchIdx, allDetailsRaw, responses,
                 processedData, processedMap, arkhamData, txsToAnalyze, tasks,
                 allAiAnalyses, events, nfaults, abortCause, jsonFiles,
                 chatHistory>>

\* The rest of the analysis flow of app.py (app.py 234-447), the pipeline
\* reduced to its outcome: it stops without a report (st.stop, or an
\* exception), or it produces the report and save_chat_context follows
\* (app.py 427-433); the session state is set only when the save returned.
AppAnalysisEnd(texts, reported) ==
  /\ pc = "appAnalysis"
  /\ IF ~reported
     THEN /\ pc' = "menu"
          /\ UNCHANGED <<chatDb, chatHistory, events>>
     ELSE /\ events' = events \o
               <<Ev("report", "", TRUE),
                 Ev("saveContext", "app", ~SaveContextRaises(chatDb))>>
          /\ chatDb' = save_chat_context(chatDb, generate_conclusion(texts),
                                         AnalysesSummary(texts))
          /\ IF SaveContextRaises(chatDb)
             THEN /\ pc' = "menu"
                  /\ UNCHANGED chatHistory
             ELSE /\ pc' = "appChat"
                  /\ chatHistory' = <<Greeting>>
  /\ UNCHANGED <<summarySource, rawSummaryData, txInfoList, dbTx, dbLabels,
                 cachedData, toFetch, fetchIdx, allDetailsRaw, responses,
                 processedData, processedMap, arkhamData, txsToAnalyze, tasks,
                 allAiAnalyses, nfaults, abortCause, jsonFiles>>

\* The restore of app.py (app.py 134-176) for an address list_available_chats
\* offers: load_chat_session, the loaded history (or the greeting when there
\* is none) shown as the conversation; a load that raises is caught.
AppRestore ==
  /\ pc = "menu"
  /\ chatDb.file # "absent"
  /\ IF LoadRaises(chatDb)
     THEN UNCHANGED <<pc, chatHistory>>
     ELSE /\ chatHistory' =
               (IF load_chat_session(chatDb).history = << >>
                THEN <<Greeting>> ELSE load_chat_session(chatDb).history)
          /\ pc' = "appChat"
  /\ UNCHANGED <<summarySource, rawSummaryData, txInfoList, dbTx, dbLabels,
                 cachedData, toFetch, fetchIdx, allDetailsRaw, responses,
                 processedData, processedMap, arkhamData, txsToAnalyze, tasks,
                 allAiAnalyses, events, nfaults, abortCause, jsonFiles, chatDb>>

\* One prompt of the chat area of app.py (app.py 468-495).
AppInput(prompt, stored1, answered, stored2) ==
  LET response == chat_with_report(prompt, answered)
      era == Era(events)
      fails == (IF stored1 THEN 0 ELSE 1) + (IF answered THEN 0 ELSE 1)
                 + (IF stored2 THEN 0 ELSE 1)
  IN  /\ pc = "appChat"
      /\ Len(EventsOf(events, "input")) < MaxInputs
      /\ nfaults + fails <= MaxFaults
      /\ nfaults' = nfaults + fails
      /\ events' = Append(events, Ev("input", prompt, TRUE))
      /\ chatDb' = save_chat_message(
                     save_chat_message(chatDb, "user", prompt, era, stored1),
                     "assistant", response, era, stored2)
      /\ chatHistory' = chatHistory \o
           <<Message("user", prompt), Message("assistant", response)>>
      /\ pc' = pc
      /\ UNCHANGED <<summarySource, rawSummaryData, txInfoList, dbTx, dbLabels,
                     cachedData, toFetch, fetchIdx, allDetailsRaw, responses,
                     processedData, processedMap, arkhamData, txsToAnalyze, tasks,
                     allAiAnalyses, abortCause, jsonFiles>>

\* The buttons that delete the session state (app.py 192-195, 212-215), and
\* a new browser session (app.py 112-123).
ClearSession ==
  /\ pc = "appChat"
  /\ pc' = "menu"
  /\ chatHistory' = << >>
  /\ UNCHANGED <<summarySource, rawSummaryData, txInfoList, dbTx, dbLabels,
                 cachedData, toFetch, fetchIdx, allDetailsRaw, responses,
                 processedData, processedMap, arkhamData, txsToAnalyze, tasks,
                 allAiAnalyses, events, nfaults, abortCause, jsonFiles, chatDb>>

\* The user at the menu, before any analysis of the address.
InitChat ==
  /\ pc = "menu"
  /\ summarySource = << >>
  /\ rawSummaryData = << >>
  /\ txInfoList = << >>
  /\ dbTx = EmptyMap
  /\ dbLabels = EmptyMap
  /\ cachedData = << >>
  /\ toFetch = << >>
  /\ fetchIdx = 1
  /\ allDetailsRaw = << >>
  /\ responses = << >>
  /\ processedData = << >>
  /\ processedMap = << >>
  /\ arkhamData = EmptyMap
  /\ txsToAnalyze = << >>
  /\ tasks = << >>
  /\ allAiAnalyses = << >>
  /\ events = << >>
  /\ nfaults = 0
  /\ abortCause = ""
  /\ jsonFiles = << >>
  /\ chatDb = NoChatDb
  /\ chatHistory = << >>

NextChat ==
  \/ \E texts \in ChatAnalyses : CliAnalysis(texts)
  \/ CliRestore
  \/ \E q \in ChatInputs, s1, a, s2 \in BOOLEAN : CliInput(q, s1, a, s2)
  \/ AppAnalysisStart
  \/ \E texts \in ChatAnalyses, reported \in BOOLEAN : AppAnalysisEnd(texts, reported)
  \/ AppRestore
  \/ \E q \in AppPrompts, s1, a, s2 \in BOOLEAN : AppInput(q, s1, a, s2)
  \/ ClearSession

SpecChat == InitChat /\ [][NextChat]_vars

(* ------------------------------- C35 ----------------------------------- *)

\* C35: in both entry points the chat context is saved only once the tables
\* of the address's chat database exist, so that no call of save_chat_context
\* fails for a missing table: every "saveContext" event, of run_new_analysis
\* and of the analysis flow of app.py alike, found the tables.
C35_ContextSavedAfterSchema ==
  \A i \in 1..Len(events) : events[i].op = "saveContext" => events[i].ok

(* ------------------------------- C36 ----------------------------------- *)

\* C36: once an analysis of the address has completed, the history table of
\* its chat database holds no message from before that analysis: every row
\* was written after the latest report was produced.
C36_NoMessageFromBeforeAnalysis ==
  \A i \in 1..Len(chatDb.history) : chatDb.history[i].era = Era(events)

(* ------------------------------- C37 ----------------------------------- *)

\* C37: on whatever chat database the program has produced,
\* reset_chat_history leaves no row in history and leaves the stored context
\* unchanged, so that load_chat_session returns the same report and analyses
\* summary with an empty history; for an address with no chat database file
\* it changes nothing, and creates no file.
C37_ResetClearsHistoryOnly ==
  LET after == reset_chat_history(chatDb)
  IN  /\ after.history = << >>
      /\ after.context = chatDb.context
      /\ after.file = chatDb.file
      /\ chatDb.file = "absent" => after = chatDb
      /\ ChatTablesExist(chatDb) =>
           load_chat_session(after) =
             [load_chat_session(chatDb) EXCEPT !.history = << >>]

\* The analysis flow of app.py has just reset a history that held the
\* question "hi" and its answer, under the report of the first analysis.
C37_Witness ==
  /\ pc = "appAnalysis"
  /\ nfaults = 0
  /\ \E i \in 1..Len(events) : events[i].op = "input" /\ events[i].key = <<"h", "i">>
  /\ chatDb.history = << >>
  /\ load_chat_session(chatDb).report = "report on [analysis of 0xA]"
  /\ load_chat_session(chatDb).analyses_summary = "analysis of 0xA"

(* ------------------------------- C38 ----------------------------------- *)

\* The position in the log of the entry of the latest start_chat_session.
SessionStart(evs) ==
  CHOOSE i \in 1..Len(evs) :
    /\ evs[i].op = "session"
    /\ \A j \in (i+1)..Len(evs) : evs[j].op # "session"

\* The lines typed since the entry of the latest session, stripped, in order.
SessionQueries(evs) ==
  LET typed == SelectSeq(SubSeq(evs, SessionStart(evs) + 1, Len(evs)),
                         LAMBDA e : e.op = "input")
  IN  [k \in 1..Len(typed) |-> Strip(typed[k].key)]

\* The history the latest session was entered with.
PriorHistory(evs) == evs[SessionStart(evs)].key

\* The queries that are neither empty nor an exit command.
Asked(queries) ==
  SelectSeq(queries, LAMBDA u : u # << >> /\ ~IsExitCommand(u))

\* h is prior followed by one user message and one assistant message for
\* each query of asked, in order.
IsPriorThenAnswers(h, prior, asked) ==
  /\ Len(h) = Len(prior) + 2 * Len(asked)
  /\ SubSeq(h, 1, Len(prior)) = prior
  /\ \A k \in 1..Len(asked) :
       /\ h[Len(prior) + 2*k - 1] = Message("user", asked[k])
       /\ h[Len(prior) + 2*k].role = "assistant"

\* C38: while start_chat_session runs, chat_history and the history
\* load_chat_session returns are the same sequence: the history the session
\* was entered with, then a user message and an assistant message for each
\* line typed that is neither empty nor an exit command, in the order typed;
\* no exit command has been typed in a session that still runs, and the
\* session ends exactly at a line that is an exit command in any case.
C38_HistoriesAgree ==
  /\ [](pc = "cliChat" =>
          /\ chatHistory = load_chat_session(chatDb).history
          /\ IsPriorThenAnswers(chatHistory, PriorHistory(events),
                                Asked(SessionQueries(events)))
          /\ \A k \in 1..Len(SessionQueries(events)) :
               ~IsExitCommand(SessionQueries(events)[k]))
  /\ [][pc = "cliChat" =>
          /\ pc' \in {"cliChat", "menu"}
          /\ pc' = "menu" <=>
               /\ Len(events') = Len(events) + 1
               /\ events'[Len(events')].op = "input"
               /\ StrLower(Strip(events'[Len(events')].key)) \in ExitCommands
          /\ pc' = "menu" => chatHistory' = chatHistory /\ chatDb' = chatDb]_vars

====
